---- MODULE Spec2Model ----
(***************************************************************************)
(* State store (crates/core/src/state.rs), directory navigation            *)
(* (crates/ui/src/components/file_navigation.rs), state persistence        *)
(* (crates/config/src/state_persistence.rs) and the sorting and filtering  *)
(* of listings (crates/core/src/file_sorting.rs) of rust-explorer.         *)
(*                                                                         *)
(* Eight specifications share this module:                                 *)
(*   Spec         one caller drives a StateManager, one whole call per     *)
(*                step;                                                    *)
(*   SpecConc     two threads drive the same StateManager, one lock        *)
(*                operation or one part of the updater per step;           *)
(*   SpecNav      one caller drives the history of a                       *)
(*                FileNavigationManager, every call logged;                *)
(*   SpecAllNav   one caller drives every entry point of a                 *)
(*                FileNavigationManager, under every configuration;        *)
(*   SpecPersist  one caller drives a StatePersistenceManager;             *)
(*   SpecPrune    one caller saves repeatedly while removing a backup may  *)
(*                fail;                                                    *)
(*   SpecSort     one caller sorts a listing with a FileSortFilterManager  *)
(*                under every sort configuration;                          *)
(*   SpecFilter   one caller filters a listing with it under every filter. *)
(* Option<T> is a sequence of length at most one: None is <<>>, Some(x) is *)
(* <<x>>.  Vec<T> is a sequence, indexed from 1 (Rust index i is i+1).     *)
(***************************************************************************)
EXTENDS Integers, Sequences, FiniteSets, TLC

VARIABLES
    app,          \* StateManager.state: the AppState behind the RwLock
    callbacks,    \* StateManager.change_callbacks: observers in registration order
    now,          \* the clock chrono::Utc::now() reads
    last,         \* the call that returned last, its Result, the AppState before it
    delivered,    \* the observer invocations made by the running / last call
    pc,           \* SpecConc: where each thread stands in its call
    local,        \* SpecConc: each thread's call, tab_index and event
    writer,       \* SpecConc: holder of state.write(), as an Option
    readers,      \* SpecConc: holders of state.read()
    cb_readers,   \* SpecConc: holders of change_callbacks.read()
    snapshot,     \* SpecConc: the AppState get_state returned to each thread
    committed,    \* SpecConc: the AppState as the last whole update left it
    nav,          \* FileNavigationManager.state: the FileNavigationState
    nav_config,   \* FileNavigationManager.config and callback registration
    nav_last,     \* the navigation call that returned last: its Result, the
                  \* state before it, the paths it handed to on_path_change
    nav_log,      \* the navigation calls made so far, in order
    nav_calls,    \* how many navigation calls were made so far
    disk,         \* the state directory: file name -> content and mtime
    dir_exists,   \* whether the state directory itself exists
    max_backups,  \* StatePersistenceConfig.max_backups
    clock,        \* the second chrono::Utc::now() and the file system read
    persist_last, \* the persistence call that returned last: its Result, the
                  \* state directory before it and the second it was made in
    persist_calls, \* how many calls or outside writes changed the directory
    saves,        \* the save_state calls that returned Ok, in order
    sort_config,  \* FileSortFilterManager.sort_config
    filter_criteria, \* FileSortFilterManager.filter_criteria
    listing,      \* the directory listing the caller holds, a Vec<FileEntry>
    sort_last     \* the sorting call that returned last and the Vec it left

vars == <<app, callbacks, now, last, delivered, pc, local, writer, readers,
          cb_readers, snapshot, committed, nav, nav_config, nav_last, nav_log,
          nav_calls, disk, dir_exists, max_backups, clock, persist_last,
          persist_calls, saves, sort_config, filter_criteria, listing, sort_last>>

storeVars == <<app, callbacks, now, last, delivered>>
concVars == <<pc, local, writer, readers, cb_readers, snapshot, committed>>
navVars == <<nav, nav_config, nav_last, nav_log, nav_calls>>
persistVars == <<disk, dir_exists, max_backups, clock, persist_last, persist_calls, saves>>
sortVars == <<sort_config, filter_criteria, listing, sort_last>>

----------------------------------------------------------------------------
(* Bounds of the model *)

MaxTabId == 2
MaxTabs == 3
MaxPaneId == 1
MaxPanes == 1
MaxSetting == 1
MaxObservers == 2
MaxClock == 5
MaxConcCalls == 2
MaxDir == 3
MaxNavCalls == 4
MaxAllNavCalls == 3
MaxValue == 1
MaxBackups == 1
MaxSecond == 1
MaxPersistCalls == 2
MaxPruneCalls == 3
MaxEntries == 2
MaxFiltered == 1
DefaultMaxBackups == 5

TabIds == 1..MaxTabId
PaneIds == 1..MaxPaneId
Settings == 0..MaxSetting
Threads == {"ui", "worker"}

None == <<>>
Some(x) == <<x>>

----------------------------------------------------------------------------
(* AppState *)

WindowStateDefault == 0
UiStateDefault == 0

TabStateNew(id) == [id |-> id, active |-> FALSE]

AppStateDefault ==
    [window |-> WindowStateDefault,
     tabs |-> <<>>,
     panes |-> <<>>,
     ui |-> UiStateDefault,
     active_tab_id |-> None,
     last_saved |-> 0]

\* Vec::remove(index)
RemoveAt(seq, i) == SubSeq(seq, 1, i - 1) \o SubSeq(seq, i + 1, Len(seq))

\* iter().position(|x| x.id == id): the first match, 0 for None
Position(seq, id) ==
    IF \E i \in 1..Len(seq) : seq[i].id = id
    THEN CHOOSE i \in 1..Len(seq) :
             /\ seq[i].id = id
             /\ \A j \in 1..(i - 1) : seq[j].id # id
    ELSE 0

\* for tab in &mut self.tabs { tab.active = false; }
DeactivateAll(tabs) == [i \in 1..Len(tabs) |-> [tabs[i] EXCEPT !.active = FALSE]]

\* let new_active_index = if tab_index > 0 { tab_index - 1 } else { 0 };
NewActiveIndexNext(tab_index) == tab_index

NewActiveIndex(tab_index) == IF tab_index > 1 THEN tab_index - 1 ELSE 1

\* AppState::get_active_tab: the first tab whose id is active_tab_id
get_active_tab(s) ==
    IF s.active_tab_id = None THEN 0 ELSE Position(s.tabs, s.active_tab_id[1])

----------------------------------------------------------------------------
(* AppError (crates/utils/src/error.rs) *)

\* AppError variants; a formatted message is the sequence of its parts
FileSystemCustom(message) == [kind |-> "FileSystemCustom", payload |-> message]
InvalidPath(path) == [kind |-> "InvalidPath", payload |-> <<path>>]
Json(detail) == [kind |-> "Json", payload |-> <<detail>>]
FileSystem(detail) == [kind |-> "FileSystem", payload |-> <<detail>>]
Internal(message) == [kind |-> "Internal", payload |-> <<message>>]

\* Result<(), AppError> as an Option of the error
Ok == None
Err(e) == Some(e)

----------------------------------------------------------------------------
(* AppState methods.  Each is written as the part of its body that runs    *)
(* first and the rest, so that SpecConc can show the state in between; the *)
(* method itself is the two in sequence (updater).  A first part yields    *)
(* the state and the local tab_index / pane_index (0: position() found     *)
(* nothing).                                                               *)

add_tab_first(s) == [state |-> [s EXCEPT !.tabs = DeactivateAll(s.tabs)], index |-> 0]

add_tab_rest(f, id, t) ==
    [ok |-> TRUE,
     state |-> [f.state EXCEPT
                   !.tabs = Append(f.state.tabs, [TabStateNew(id) EXCEPT !.active = TRUE]),
                   !.active_tab_id = Some(id),
                   !.last_saved = t]]

remove_tab_firstEager(s, id) ==
    LET i == Position(s.tabs, id) IN
    IF i = 0 THEN [state |-> [s EXCEPT !.tabs = DeactivateAll(s.tabs)], index |-> 0]
    ELSE [state |-> [s EXCEPT !.tabs = RemoveAt(s.tabs, i)], index |-> i]

remove_tab_first(s, id) ==
    LET i == Position(s.tabs, id) IN
    IF i = 0 THEN [state |-> s, index |-> 0]
    ELSE [state |-> [s EXCEPT !.tabs = RemoveAt(s.tabs, i)], index |-> i]

remove_tab_rest(f, id, t) ==
    LET s == f.state
        n == NewActiveIndex(f.index)
        reassigned ==
            IF s.active_tab_id # Some(id) THEN s
            ELSE IF s.tabs = <<>> THEN [s EXCEPT !.active_tab_id = None]
            ELSE IF n \in 1..Len(s.tabs)
                 THEN [s EXCEPT !.tabs[n].active = TRUE,
                                !.active_tab_id = Some(s.tabs[n].id)]
                 ELSE s
    IN  IF f.index = 0
        THEN [ok |-> FALSE, state |-> s, err |-> Internal(<<"Tab not found", id>>)]
        ELSE [ok |-> TRUE, state |-> [reassigned EXCEPT !.last_saved = t]]

set_active_tab_first(s) == [state |-> [s EXCEPT !.tabs = DeactivateAll(s.tabs)], index |-> 0]

set_active_tab_rest(f, id, t) ==
    LET s == f.state
        i == Position(s.tabs, id)
    IN  IF i = 0
        THEN [ok |-> FALSE, state |-> s, err |-> Internal(<<"Tab not found", id>>)]
        ELSE [ok |-> TRUE,
              state |-> [s EXCEPT !.tabs[i].active = TRUE,
                                  !.active_tab_id = Some(id),
                                  !.last_saved = t]]

add_pane_first(s, id) == [state |-> [s EXCEPT !.panes = Append(s.panes, [id |-> id])], index |-> 0]

add_pane_rest(f, t) == [ok |-> TRUE, state |-> [f.state EXCEPT !.last_saved = t]]

remove_pane_first(s, id) ==
    LET i == Position(s.panes, id) IN
    IF i = 0 THEN [state |-> s, index |-> 0]
    ELSE [state |-> [s EXCEPT !.panes = RemoveAt(s.panes, i)], index |-> i]

remove_pane_rest(f, id, t) ==
    IF f.index = 0
    THEN [ok |-> FALSE, state |-> f.state, err |-> Internal(<<"Pane not found", id>>)]
    ELSE [ok |-> TRUE, state |-> [f.state EXCEPT !.last_saved = t]]

----------------------------------------------------------------------------
(* StateManager: the closures its methods hand to update_state.  A call is *)
(* [op, arg]; the closure's value is Result<Option<StateChangeEvent>>:     *)
(* ok, the state it leaves behind, and the event.                          *)

StateChangeEvent(type, arg) == [type |-> type, arg |-> arg]

TabCalls == [op : {"add_tab", "remove_tab", "set_active_tab"}, arg : TabIds]
SettingCalls == [op : {"update_window_state", "update_ui_state"}, arg : Settings]
PaneCalls == [op : {"add_pane", "remove_pane"}, arg : PaneIds]
UpdateCalls == TabCalls \cup SettingCalls \cup PaneCalls

EventType(op) ==
    CASE op = "update_window_state" -> "WindowChanged"
      [] op = "add_tab" -> "TabAdded"
      [] op = "remove_tab" -> "TabRemoved"
      [] op = "set_active_tab" -> "ActiveTabChanged"
      [] op = "update_ui_state" -> "UiStateChanged"
      [] op = "add_pane" -> "PaneAdded"
      [] op = "remove_pane" -> "PaneRemoved"

\* the call may run: the model's vectors are bounded
Fits(c, s) ==
    /\ c.op = "add_tab" => Len(s.tabs) < MaxTabs
    /\ c.op = "add_pane" => Len(s.panes) < MaxPanes

updater_first(c, s) ==
    CASE c.op = "add_tab" -> add_tab_first(s)
      [] c.op = "remove_tab" -> remove_tab_first(s, c.arg)
      [] c.op = "set_active_tab" -> set_active_tab_first(s)
      [] c.op = "update_window_state" -> [state |-> [s EXCEPT !.window = c.arg], index |-> 0]
      [] c.op = "update_ui_state" -> [state |-> [s EXCEPT !.ui = c.arg], index |-> 0]
      [] c.op = "add_pane" -> add_pane_first(s, c.arg)
      [] c.op = "remove_pane" -> remove_pane_first(s, c.arg)

updater_rest(c, f, t) ==
    LET r == CASE c.op = "add_tab" -> add_tab_rest(f, c.arg, t)
               [] c.op = "remove_tab" -> remove_tab_rest(f, c.arg, t)
               [] c.op = "set_active_tab" -> set_active_tab_rest(f, c.arg, t)
               [] c.op = "update_window_state" ->
                      [ok |-> TRUE, state |-> [f.state EXCEPT !.last_saved = t]]
               [] c.op = "update_ui_state" ->
                      [ok |-> TRUE, state |-> [f.state EXCEPT !.last_saved = t]]
               [] c.op = "add_pane" -> add_pane_rest(f, t)
               [] c.op = "remove_pane" -> remove_pane_rest(f, c.arg, t)
    IN  [ok |-> r.ok,
         state |-> r.state,
         err |-> IF r.ok THEN None ELSE Some(r.err),
         event |-> IF r.ok THEN Some(StateChangeEvent(EventType(c.op), c.arg)) ELSE None]

updater(c, s, t) == updater_rest(c, updater_first(c, s), t)

\* trigger_event: every callback, in the order of the Vec
trigger_eventReversed(cbs, event) ==
    [i \in 1..Len(cbs) |-> [observer |-> cbs[Len(cbs) + 1 - i], event |-> event]]

trigger_event(cbs, event) ==
    [i \in 1..Len(cbs) |-> [observer |-> cbs[i], event |-> event]]

----------------------------------------------------------------------------
(* Spec: one caller, one whole StateManager call per step *)

NoCall == [op |-> "new", arg |-> 0, ok |-> TRUE, err |-> None, before |-> AppStateDefault]

StoreInit ==
    /\ app = AppStateDefault
    /\ callbacks = <<>>
    /\ now = 0
    /\ last = NoCall
    /\ delivered = <<>>

NoLocal == [call |-> NoCall, index |-> 0, event |-> None, k |-> 0]

ConcIdle ==
    /\ pc = [t \in Threads |-> "idle"]
    /\ local = [t \in Threads |-> NoLocal]
    /\ writer = None
    /\ readers = {}
    /\ cb_readers = {}
    /\ snapshot = [t \in Threads |-> None]
    /\ committed = AppStateDefault

\* the state directory right after ensure_state_dir created it
EmptyDir == [name \in {} |-> 0]

NoPersistCall(dir) ==
    [op |-> "new", key |-> <<>>, ok |-> TRUE, err |-> <<>>, value |-> <<>>,
     listed |-> <<>>, before |-> dir, dir_existed |-> TRUE,
     second |-> 0]

\* FileNavigationState::new(initial_path)
FileNavigationStateNew(initial_path) ==
    [current_path |-> initial_path,
     history_back |-> <<>>,
     history_forward |-> <<>>,
     last_error |-> None]

NavIdle ==
    /\ nav = FileNavigationStateNew(1)
    /\ nav_config = [enable_double_click |-> TRUE, enable_parent_navigation |-> TRUE,
                     enable_history |-> TRUE, on_path_change |-> FALSE,
                     on_error |-> FALSE]
    /\ nav_last = [op |-> "new", arg |-> 1, ok |-> TRUE, err |-> <<>>,
                   notified |-> <<>>, reported |-> <<>>,
                   before |-> FileNavigationStateNew(1)]
    /\ nav_log = <<>>
    /\ nav_calls = 0

\* StatePersistenceConfig::default(): an empty state directory, five backups
PersistIdle ==
    /\ disk = EmptyDir
    /\ dir_exists = TRUE
    /\ max_backups = DefaultMaxBackups
    /\ clock = 0
    /\ persist_last = NoPersistCall(EmptyDir)
    /\ persist_calls = 0
    /\ saves = <<>>

\* SortConfig::default()
SortConfigDefault ==
    [criteria |-> "Name", direction |-> "Ascending", folders_first |-> TRUE]

\* FilterCriteria::default()
FilterCriteriaDefault ==
    [show_hidden |-> FALSE, name_filter |-> None, extension_filter |-> None,
     min_size |-> None, max_size |-> None]

NoSortCall == [op |-> "new", output |-> <<>>]

\* FileSortFilterManager::new(), and no listing read yet
SortIdle ==
    /\ sort_config = SortConfigDefault
    /\ filter_criteria = FilterCriteriaDefault
    /\ listing = <<>>
    /\ sort_last = NoSortCall

Init == StoreInit /\ ConcIdle /\ NavIdle /\ PersistIdle /\ SortIdle

\* update_state(updater): write lock, updater, trigger_event on Ok(Some(event))
update_state(c) ==
    /\ now < MaxClock
    /\ Fits(c, app)
    /\ LET r == updater(c, app, now + 1) IN
        /\ app' = r.state
        /\ delivered' = IF r.ok THEN trigger_event(callbacks, r.event[1]) ELSE <<>>
        /\ last' = [op |-> c.op, arg |-> c.arg, ok |-> r.ok, err |-> r.err, before |-> app]
    /\ now' = now + 1
    /\ UNCHANGED <<callbacks, concVars, navVars, persistVars, sortVars>>

StateManager_add_tab == \E id \in TabIds : update_state([op |-> "add_tab", arg |-> id])

StateManager_remove_tab == \E id \in TabIds : update_state([op |-> "remove_tab", arg |-> id])

StateManager_set_active_tab ==
    \E id \in TabIds : update_state([op |-> "set_active_tab", arg |-> id])

update_window_state == \E w \in Settings : update_state([op |-> "update_window_state", arg |-> w])

update_ui_state == \E u \in Settings : update_state([op |-> "update_ui_state", arg |-> u])

update_add_pane == \E id \in PaneIds : update_state([op |-> "add_pane", arg |-> id])

update_remove_pane == \E id \in PaneIds : update_state([op |-> "remove_pane", arg |-> id])

\* on_state_change(callback): the n-th registered closure is observer n
on_state_change ==
    /\ now < MaxClock
    /\ Len(callbacks) < MaxObservers
    /\ callbacks' = Append(callbacks, Len(callbacks) + 1)
    /\ last' = [op |-> "on_state_change", arg |-> Len(callbacks) + 1, ok |-> TRUE, err |-> None,
                before |-> app]
    /\ delivered' = <<>>
    /\ now' = now + 1
    /\ UNCHANGED <<app, concVars, navVars, persistVars, sortVars>>

Next ==
    \/ StateManager_add_tab
    \/ StateManager_remove_tab
    \/ StateManager_set_active_tab
    \/ update_window_state
    \/ update_ui_state
    \/ update_add_pane
    \/ update_remove_pane
    \/ on_state_change

Spec == Init /\ [][Next]_vars

----------------------------------------------------------------------------
(* Claims on the tab list, checked under Spec *)

ActiveTabs(s) == {i \in 1..Len(s.tabs) : s.tabs[i].active}

\* C1: after any sequence of add_tab, remove_tab and set_active_tab calls, with
\* any tab ids, at most one tab has active = true, and active_tab_id is None
\* if and only if the tab list is empty.
C1_TabInvariant ==
    /\ Cardinality(ActiveTabs(app)) <= 1
    /\ app.active_tab_id = None <=> app.tabs = <<>>

\* C2: active_tab_id is Some(id) if and only if exactly one tab has
\* active = true and that tab's id is id; otherwise active_tab_id is None.
C2_ActiveIdIffOneActive ==
    /\ \A id \in TabIds :
          app.active_tab_id = Some(id) <=>
              \E i \in 1..Len(app.tabs) : ActiveTabs(app) = {i} /\ app.tabs[i].id = id
    /\ app.active_tab_id \in {None} \cup {Some(id) : id \in TabIds}

\* C3: remove_tab of the active tab (the one get_active_tab yields) at position
\* i makes the tab that was at i-1, or the first remaining tab when i is the
\* first position, the active tab: active = true and active_tab_id its id; if
\* it was the only tab, the list is empty and active_tab_id is None.  Removing
\* any other tab leaves every remaining tab's flag and active_tab_id as they were.
C3_RemoveReassigns ==
    (last.op = "remove_tab" /\ last.ok) =>
        LET b == last.before
            i == Position(b.tabs, last.arg)
            heir == IF i > 1 THEN i - 1 ELSE 1
        IN  /\ i # 0
            /\ Len(app.tabs) = Len(b.tabs) - 1
            /\ IF get_active_tab(b) = i
               THEN IF Len(b.tabs) = 1
                    THEN app.tabs = <<>> /\ app.active_tab_id = None
                    ELSE /\ app.tabs[heir].id = (IF i > 1 THEN b.tabs[i - 1].id ELSE b.tabs[2].id)
                         /\ app.tabs[heir].active
                         /\ app.active_tab_id = Some(app.tabs[heir].id)
               ELSE /\ app.tabs = RemoveAt(b.tabs, i)
                    /\ app.active_tab_id = b.active_tab_id

C3_Witness ==
    /\ last.op = "remove_tab" /\ last.ok
    /\ Len(last.before.tabs) = 3
    /\ get_active_tab(last.before) = 3
    /\ Position(last.before.tabs, last.arg) = 3
    /\ app.tabs[2].active

\* C4: set_active_tab with an id that matches no tab returns an error and
\* leaves the state get_state shows exactly as it was before the call.
C4_SetActiveUnknownKeepsState ==
    (last.op = "set_active_tab" /\ Position(last.before.tabs, last.arg) = 0) =>
        ~last.ok /\ app = last.before

\* C5: remove_tab (remove_pane) with an id that matches no tab (pane) returns
\* an error, leaves tabs, panes, flags and active_tab_id exactly as before,
\* and delivers no change event.
C5_RemoveUnknownKeepsState ==
    /\ (last.op = "remove_tab" /\ Position(last.before.tabs, last.arg) = 0) =>
           ~last.ok /\ app = last.before /\ delivered = <<>>
    /\ (last.op = "remove_pane" /\ Position(last.before.panes, last.arg) = 0) =>
           ~last.ok /\ app = last.before /\ delivered = <<>>

C5_Witness ==
    /\ last.op = "remove_tab" /\ ~last.ok
    /\ ActiveTabs(app) # {}
    /\ callbacks # <<>>

\* C8: each successful update_window_state, add_tab, remove_tab, set_active_tab
\* and update_ui_state call invokes every registered observer exactly once, in
\* registration order, with the event of the matching type; a call that
\* returns an error invokes no observer.
C8_ObserversNotifiedInOrder ==
    last.op \in {"update_window_state", "add_tab", "remove_tab", "set_active_tab",
                 "update_ui_state"} =>
        IF last.ok
        THEN /\ Len(delivered) = Len(callbacks)
             /\ \A i \in 1..Len(delivered) :
                   /\ delivered[i].observer = i
                   /\ delivered[i].event.type =
                        (CASE last.op = "update_window_state" -> "WindowChanged"
                           [] last.op = "add_tab" -> "TabAdded"
                           [] last.op = "remove_tab" -> "TabRemoved"
                           [] last.op = "set_active_tab" -> "ActiveTabChanged"
                           [] last.op = "update_ui_state" -> "UiStateChanged")
        ELSE delivered = <<>>

C8_Witness ==
    /\ last.op = "set_active_tab" /\ last.ok
    /\ Len(callbacks) = 2
    /\ Len(delivered) = 2
    /\ delivered[1].observer = 1 /\ delivered[2].observer = 2

\* C24: remove_tab and set_active_tab called with an identifier that
\* matches no tab return an error of kind NotFound.
C24_UnknownTabIsNotFound ==
    (/\ last.op \in {"remove_tab", "set_active_tab"}
     /\ Position(last.before.tabs, last.arg) = 0) =>
        /\ ~last.ok
        /\ last.err # None
        /\ last.err[1].kind = "NotFound"

----------------------------------------------------------------------------
(* SpecConc: two threads on one StateManager.  std::sync::RwLock: write()  *)
(* waits until no guard is held, read() until no write guard is held.      *)
(* update_state binds its write guard to `state`, which lives to the end   *)
(* of the function: past trigger_event on Ok(Some(event)), to the early    *)
(* return of `?` on Err.                                                   *)

CanReadUnguarded == TRUE

CanRead == writer = None

CanWrite == writer = None /\ readers = {}

\* update_state: self.state.write()
write_lock(t) ==
    \E c \in UpdateCalls :
        /\ pc[t] = "idle"
        /\ now < MaxConcCalls
        /\ Fits(c, app)
        /\ CanWrite
        /\ writer' = Some(t)
        /\ pc' = [pc EXCEPT ![t] = "updating"]
        /\ local' = [local EXCEPT ![t] = [call |-> c, index |-> 0, event |-> None, k |-> 0]]
        /\ snapshot' = [snapshot EXCEPT ![t] = None]
        /\ now' = now + 1
        /\ UNCHANGED <<app, callbacks, last, delivered, readers, cb_readers, committed, navVars, persistVars, sortVars>>

\* update_state: updater(&mut state), up to the point between its two parts
run_updater_first(t) ==
    /\ pc[t] = "updating"
    /\ LET f == updater_first(local[t].call, app) IN
        /\ app' = f.state
        /\ local' = [local EXCEPT ![t].index = f.index]
    /\ pc' = [pc EXCEPT ![t] = "mutating"]
    /\ UNCHANGED <<callbacks, now, last, delivered, writer, readers, cb_readers, snapshot,
                   committed, navVars, persistVars, sortVars>>

\* run_updater_rest with the write guard dropped before trigger_event
run_updater_restUnlocks(t) ==
    /\ pc[t] = "mutating"
    /\ LET r == updater_rest(local[t].call, [state |-> app, index |-> local[t].index], now) IN
        /\ app' = r.state
        /\ committed' = r.state
        /\ IF r.ok
           THEN /\ pc' = [pc EXCEPT ![t] = "notify"]
                /\ local' = [local EXCEPT ![t].event = r.event, ![t].k = 1]
                /\ cb_readers' = cb_readers \cup {t}
                /\ delivered' = <<>>
                /\ writer' = None
           ELSE /\ pc' = [pc EXCEPT ![t] = "idle"]
                /\ local' = [local EXCEPT ![t] = NoLocal]
                /\ writer' = None
                /\ UNCHANGED <<cb_readers, delivered>>
    /\ UNCHANGED <<callbacks, now, last, readers, snapshot, navVars, persistVars, sortVars>>

\* update_state: the rest of updater(&mut state); `?` returns on Err and drops
\* the guard, Ok(Some(event)) enters trigger_event: change_callbacks.read()
run_updater_rest(t) ==
    /\ pc[t] = "mutating"
    /\ LET r == updater_rest(local[t].call, [state |-> app, index |-> local[t].index], now) IN
        /\ app' = r.state
        /\ committed' = r.state
        /\ IF r.ok
           THEN /\ pc' = [pc EXCEPT ![t] = "notify"]
                /\ local' = [local EXCEPT ![t].event = r.event, ![t].k = 1]
                /\ cb_readers' = cb_readers \cup {t}
                /\ delivered' = <<>>
                /\ UNCHANGED writer
           ELSE /\ pc' = [pc EXCEPT ![t] = "idle"]
                /\ local' = [local EXCEPT ![t] = NoLocal]
                /\ writer' = None
                /\ UNCHANGED <<cb_readers, delivered>>
    /\ UNCHANGED <<callbacks, now, last, readers, snapshot, navVars, persistVars, sortVars>>

\* trigger_event: callback(&event) is entered
callback_enter(t) ==
    /\ pc[t] = "notify"
    /\ local[t].k <= Len(callbacks)
    /\ pc' = [pc EXCEPT ![t] = "in_callback"]
    /\ UNCHANGED <<storeVars, local, writer, readers, cb_readers, snapshot, committed, navVars, persistVars, sortVars>>

\* trigger_event: callback(&event) returns
callback_return(t) ==
    /\ pc[t] = "in_callback"
    /\ delivered' = Append(delivered,
                           [observer |-> callbacks[local[t].k], event |-> local[t].event[1]])
    /\ local' = [local EXCEPT ![t].k = @ + 1]
    /\ pc' = [pc EXCEPT ![t] = "notify"]
    /\ UNCHANGED <<app, callbacks, now, last, writer, readers, cb_readers, snapshot, committed,
                   navVars, persistVars, sortVars>>

\* the running callback calls back into the StateManager that notifies it:
\* get_state (state.read()), a mutator (state.write()) or on_state_change
\* (change_callbacks.write()).  The call waits for its lock on the thread
\* that runs trigger_event.
callback_reenters(t) ==
    \E call \in {"get_state", "update_state", "on_state_change"} :
        /\ pc[t] = "in_callback"
        /\ pc' = [pc EXCEPT ![t] = call]
        /\ UNCHANGED <<storeVars, local, writer, readers, cb_readers, snapshot, committed,
                       navVars, persistVars, sortVars>>

\* trigger_event is through; update_state returns Ok(()) and drops its guard
update_return(t) ==
    /\ pc[t] = "notify"
    /\ local[t].k > Len(callbacks)
    /\ cb_readers' = cb_readers \ {t}
    /\ writer' = None
    /\ pc' = [pc EXCEPT ![t] = "idle"]
    /\ local' = [local EXCEPT ![t] = NoLocal]
    /\ UNCHANGED <<storeVars, readers, snapshot, committed, navVars, persistVars, sortVars>>

\* get_state: self.state.read()
read_lock(t) ==
    /\ pc[t] = "idle"
    /\ CanRead
    /\ readers' = readers \cup {t}
    /\ pc' = [pc EXCEPT ![t] = "reading"]
    /\ snapshot' = [snapshot EXCEPT ![t] = None]
    /\ UNCHANGED <<storeVars, local, writer, cb_readers, committed, navVars, persistVars, sortVars>>

\* get_state: state.clone() is returned and the read guard dropped.  The
\* snapshot carries the state as the last whole update call left it.
get_state_return(t) ==
    /\ pc[t] = "reading"
    /\ snapshot' = [snapshot EXCEPT ![t] = Some([state |-> app, boundary |-> committed])]
    /\ readers' = readers \ {t}
    /\ pc' = [pc EXCEPT ![t] = "idle"]
    /\ UNCHANGED <<storeVars, local, writer, cb_readers, committed, navVars, persistVars, sortVars>>

\* on_state_change: change_callbacks.write(), push
register_observer(t) ==
    /\ pc[t] = "idle"
    /\ cb_readers = {}
    /\ Len(callbacks) < MaxObservers
    /\ callbacks' = Append(callbacks, Len(callbacks) + 1)
    /\ UNCHANGED <<app, now, last, delivered, concVars, navVars, persistVars, sortVars>>

NextConc ==
    \E t \in Threads :
        \/ write_lock(t)
        \/ run_updater_first(t)
        \/ run_updater_rest(t)
        \/ callback_enter(t)
        \/ callback_return(t)
        \/ callback_reenters(t)
        \/ update_return(t)
        \/ read_lock(t)
        \/ get_state_return(t)
        \/ register_observer(t)

SpecConc == Init /\ [][NextConc]_vars

\* C6: observers are invoked after the write lock on the state has been
\* released: while a callback is running the lock is free, so another
\* thread's update or get_state is not kept waiting by the callback.
C6_CallbackRunsUnlocked ==
    \A t \in Threads : pc[t] = "in_callback" => writer = None

\* C7: every AppState get_state returns equals the state as a whole update
\* call left it (or the initial state); never a state between two parts of
\* an updater.
C7_SnapshotsAreWhole ==
    \A t \in Threads :
        snapshot[t] # None => snapshot[t][1].state = snapshot[t][1].boundary

C7_Witness ==
    /\ snapshot["ui"] # None
    /\ snapshot["ui"][1].state.tabs # <<>>
    /\ pc["worker"] = "mutating"
    /\ local["worker"].call.op = "add_tab"
    /\ app # committed

\* C27: an observer callback that, while being notified, calls get_state, a
\* mutator or on_state_change on the same StateManager returns: the lock its
\* call waits for is not held by the thread that waits, so notification
\* never deadlocks on itself.
C27_ReentrantCallbackProceeds ==
    \A t \in Threads :
        /\ pc[t] = "get_state" => writer # Some(t)
        /\ pc[t] = "update_state" => writer # Some(t) /\ t \notin readers
        /\ pc[t] = "on_state_change" => t \notin cb_readers

Notifying(t) == pc[t] \in {"notify", "in_callback"}

\* C28: when several threads mutate the same StateManager, each observer
\* receives the events in the order in which the mutations were applied, and
\* the notifications of two mutations never interleave: while the observers
\* of one mutation are being notified no other mutation is applied or
\* notified, and what was delivered so far is this mutation's event to the
\* first observers in registration order.
C28_NotificationsInMutationOrder ==
    \A t \in Threads :
        Notifying(t) =>
            /\ \A u \in Threads \ {t} : pc[u] \in {"idle", "reading"}
            /\ app = committed
            /\ Len(delivered) = local[t].k - 1
            /\ \A i \in 1..Len(delivered) :
                   /\ delivered[i].observer = callbacks[i]
                   /\ delivered[i].event = local[t].event[1]

\* the second of two mutations by different threads is being notified: its
\* first observer has the event, its second observer is running
C28_Witness ==
    /\ pc["ui"] = "in_callback"
    /\ now = MaxConcCalls
    /\ committed.tabs # <<>>
    /\ local["ui"].call.op = "set_active_tab"
    /\ local["ui"].k = 2
    /\ Len(delivered) = 1

----------------------------------------------------------------------------
(* FileNavigationManager.  A path is a number: 1..MaxDir are directories   *)
(* that validate_navigation accepts, NoDir is a path it rejects (absent,   *)
(* not a directory, or not accessible).                                    *)

HistoryCap == 50
NoDir == 0
Dirs == 1..MaxDir
RootDir == 1
AFile == MaxDir + 1
LockedDir == MaxDir + 2
\* ".", the working directory by its relative name
CurDir == MaxDir + 3
Paths == Dirs \cup {NoDir, AFile, LockedDir, CurDir}

\* Path::exists, Path::is_dir, Path::is_file
exists(path) == path # NoDir
is_dir(path) == path \in Dirs \cup {LockedDir, CurDir}
is_file(path) == path = AFile

\* SystemIntegration::is_accessible, the collaborator's answer
is_accessible(path) == exists(path) /\ path # LockedDir

\* Path::parent: the root has none; directory d lies in directory d - 1, the
\* file, the locked directory and the absent path lie in the root; the
\* parent of "." is "", a path that does not exist
get_parent_directory(current_path) ==
    IF current_path = RootDir THEN None
    ELSE IF current_path \in Dirs THEN Some(current_path - 1)
    ELSE IF current_path = CurDir THEN Some(NoDir)
    ELSE Some(RootDir)

\* CoreFileNavigationManager::validate_navigation
validate_navigation(target_path) ==
    IF ~exists(target_path)
    THEN Err(FileSystemCustom(<<"directory does not exist", target_path>>))
    ELSE IF ~is_dir(target_path)
    THEN Err(FileSystemCustom(<<"not a directory", target_path>>))
    ELSE IF ~is_accessible(target_path)
    THEN Err(FileSystemCustom(<<"directory is not accessible", target_path>>))
    ELSE Ok

\* CoreFileNavigationManager::open_item with DefaultSystemIntegration;
\* spawned tells whether Command::spawn started the opener
open_item(path, spawned) ==
    IF ~is_accessible(path)
    THEN Err(FileSystemCustom(<<"not accessible", path>>))
    ELSE IF ~spawned
    THEN Err(FileSystemCustom(<<"could not open", path>>))
    ELSE Ok

Last(seq) == seq[Len(seq)]
Front(seq) == SubSeq(seq, 1, Len(seq) - 1)

Failed(st, e) == [ok |-> FALSE, err |-> Err(e), state |-> st, notified |-> <<>>]

navigate_toKeepsForward(st, cfg, path) ==
    LET pushed == Append(st.history_back, st.current_path)
        recorded ==
            IF cfg.enable_history /\ st.current_path # path
            THEN [st EXCEPT !.history_back =
                                IF Len(pushed) > HistoryCap THEN Tail(pushed) ELSE pushed]
            ELSE st
        valid == validate_navigation(path)
    IN  IF valid # Ok
        THEN Failed(st, valid[1])
        ELSE [ok |-> TRUE, err |-> Ok,
              state |-> [recorded EXCEPT !.current_path = path, !.last_error = None],
              notified |-> IF cfg.on_path_change THEN <<path>> ELSE <<>>]

navigate_toAlwaysRecords(st, cfg, path) ==
    LET pushed == Append(st.history_back, st.current_path)
        recorded ==
            IF cfg.enable_history
            THEN [st EXCEPT !.history_back =
                                IF Len(pushed) > HistoryCap THEN Tail(pushed) ELSE pushed,
                            !.history_forward = <<>>]
            ELSE st
        valid == validate_navigation(path)
    IN  IF valid # Ok
        THEN Failed(st, valid[1])
        ELSE [ok |-> TRUE, err |-> Ok,
              state |-> [recorded EXCEPT !.current_path = path, !.last_error = None],
              notified |-> IF cfg.on_path_change THEN <<path>> ELSE <<>>]

navigate_toDropsNewest(st, cfg, path) ==
    LET pushed == Append(st.history_back, st.current_path)
        recorded ==
            IF cfg.enable_history /\ st.current_path # path
            THEN [st EXCEPT !.history_back =
                                IF Len(pushed) > HistoryCap THEN Front(pushed) ELSE pushed,
                            !.history_forward = <<>>]
            ELSE st
        valid == validate_navigation(path)
    IN  IF valid # Ok
        THEN Failed(st, valid[1])
        ELSE [ok |-> TRUE, err |-> Ok,
              state |-> [recorded EXCEPT !.current_path = path, !.last_error = None],
              notified |-> IF cfg.on_path_change THEN <<path>> ELSE <<>>]

navigate_toClearsErrorFirst(st, cfg, path) ==
    LET pushed == Append(st.history_back, st.current_path)
        recorded ==
            IF cfg.enable_history /\ st.current_path # path
            THEN [st EXCEPT !.history_back =
                                IF Len(pushed) > HistoryCap THEN Tail(pushed) ELSE pushed,
                            !.history_forward = <<>>]
            ELSE st
        valid == validate_navigation(path)
    IN  IF valid # Ok
        THEN Failed([st EXCEPT !.last_error = None], valid[1])
        ELSE [ok |-> TRUE, err |-> Ok,
              state |-> [recorded EXCEPT !.current_path = path, !.last_error = None],
              notified |-> IF cfg.on_path_change THEN <<path>> ELSE <<>>]

\* FileNavigationManager::navigate_to
navigate_to(st, cfg, path) ==
    LET pushed == Append(st.history_back, st.current_path)
        recorded ==
            IF cfg.enable_history /\ st.current_path # path
            THEN [st EXCEPT !.history_back =
                                IF Len(pushed) > HistoryCap THEN Tail(pushed) ELSE pushed,
                            !.history_forward = <<>>]
            ELSE st
        valid == validate_navigation(path)
    IN  IF valid # Ok
        THEN Failed(st, valid[1])
        ELSE [ok |-> TRUE, err |-> Ok,
              state |-> [recorded EXCEPT !.current_path = path, !.last_error = None],
              notified |-> IF cfg.on_path_change THEN <<path>> ELSE <<>>]

\* navigate_up that moves to the parent without going through navigate_to
navigate_upMovesOnly(st, cfg) ==
    LET parent == get_parent_directory(st.current_path) IN
    IF ~cfg.enable_parent_navigation
    THEN Failed(st, FileSystemCustom(<<"parent navigation is disabled">>))
    ELSE IF parent = None
    THEN Failed(st, FileSystemCustom(<<"no parent directory">>))
    ELSE [ok |-> TRUE, err |-> Ok,
          state |-> [st EXCEPT !.current_path = parent[1]],
          notified |-> <<>>]

\* FileNavigationManager::navigate_up
navigate_up(st, cfg) ==
    LET parent == get_parent_directory(st.current_path) IN
    IF ~cfg.enable_parent_navigation
    THEN Failed(st, FileSystemCustom(<<"parent navigation is disabled">>))
    ELSE IF parent = None
    THEN Failed(st, FileSystemCustom(<<"no parent directory">>))
    ELSE navigate_to(st, cfg, parent[1])

\* go_back that forgets the path it leaves
go_backDropsCurrent(st, cfg) ==
    IF ~cfg.enable_history
    THEN Failed(st, FileSystemCustom(<<"history navigation is disabled">>))
    ELSE IF st.history_back = <<>>
    THEN Failed(st, FileSystemCustom(<<"no back history">>))
    ELSE LET back_path == Last(st.history_back) IN
         [ok |-> TRUE, err |-> Ok,
          state |-> [st EXCEPT !.history_back = Front(st.history_back),
                               !.current_path = back_path],
          notified |-> IF cfg.on_path_change THEN <<back_path>> ELSE <<>>]

\* FileNavigationManager::go_back
go_back(st, cfg) ==
    IF ~cfg.enable_history
    THEN Failed(st, FileSystemCustom(<<"history navigation is disabled">>))
    ELSE IF st.history_back = <<>>
    THEN Failed(st, FileSystemCustom(<<"no back history">>))
    ELSE LET back_path == Last(st.history_back) IN
         [ok |-> TRUE, err |-> Ok,
          state |-> [st EXCEPT !.history_back = Front(st.history_back),
                               !.history_forward = Append(st.history_forward, st.current_path),
                               !.current_path = back_path],
          notified |-> IF cfg.on_path_change THEN <<back_path>> ELSE <<>>]

\* go_forward that refuses the last entry of the forward history
go_forwardNeedsTwo(st, cfg) ==
    IF ~cfg.enable_history
    THEN Failed(st, FileSystemCustom(<<"history navigation is disabled">>))
    ELSE IF Len(st.history_forward) < 2
    THEN Failed(st, FileSystemCustom(<<"no forward history">>))
    ELSE LET forward_path == Last(st.history_forward) IN
         [ok |-> TRUE, err |-> Ok,
          state |-> [st EXCEPT !.history_forward = Front(st.history_forward),
                               !.history_back = Append(st.history_back, st.current_path),
                               !.current_path = forward_path],
          notified |-> IF cfg.on_path_change THEN <<forward_path>> ELSE <<>>]

\* FileNavigationManager::go_forward
go_forward(st, cfg) ==
    IF ~cfg.enable_history
    THEN Failed(st, FileSystemCustom(<<"history navigation is disabled">>))
    ELSE IF st.history_forward = <<>>
    THEN Failed(st, FileSystemCustom(<<"no forward history">>))
    ELSE LET forward_path == Last(st.history_forward) IN
         [ok |-> TRUE, err |-> Ok,
          state |-> [st EXCEPT !.history_forward = Front(st.history_forward),
                               !.history_back = Append(st.history_back, st.current_path),
                               !.current_path = forward_path],
          notified |-> IF cfg.on_path_change THEN <<forward_path>> ELSE <<>>]

can_go_back(st) == st.history_back # <<>>
can_go_forward(st) == st.history_forward # <<>>

\* FileNavigationManager::can_go_up
can_go_up(st, cfg) ==
    cfg.enable_parent_navigation /\ get_parent_directory(st.current_path) # None

\* handle_error that reports the message without keeping it as last_error
handle_errorReportsOnly(r, cfg, context) ==
    IF r.err = Ok
    THEN [state |-> r.state, notified |-> r.notified, reported |-> <<>>]
    ELSE LET error_message == [context |-> context, error |-> r.err[1]] IN
         [state |-> r.state,
          notified |-> r.notified,
          reported |-> IF cfg.on_error THEN <<error_message>> ELSE <<>>]

\* FileNavigationManager::handle_error: the message is format!(context, e)
handle_error(r, cfg, context) ==
    IF r.err = Ok
    THEN [state |-> r.state, notified |-> r.notified, reported |-> <<>>]
    ELSE LET error_message == [context |-> context, error |-> r.err[1]] IN
         [state |-> [r.state EXCEPT !.last_error = Some(error_message)],
          notified |-> r.notified,
          reported |-> IF cfg.on_error THEN <<error_message>> ELSE <<>>]

\* FileNavigationManager::handle_double_click
handle_double_click(st, cfg, entry, spawned) ==
    LET opened == [ok |-> open_item(entry.path, spawned) = Ok,
                   err |-> open_item(entry.path, spawned),
                   state |-> st, notified |-> <<>>]
    IN  IF ~cfg.enable_double_click
        THEN [state |-> st, notified |-> <<>>, reported |-> <<>>]
        ELSE IF entry.file_type = "Directory"
        THEN handle_error(navigate_to(st, cfg, entry.path), cfg, "directory move error")
        ELSE IF entry.file_type = "File"
        THEN handle_error(opened, cfg, "file open error")
        ELSE handle_error(opened, cfg, "item open error")

\* The state 49 navigate_to calls alternating between directories 2 and 1
\* leave behind, starting at directory 1: one push short of the cap.
LongHistory ==
    [current_path |-> 2,
     history_back |-> [i \in 1..(HistoryCap - 1) |-> IF i % 2 = 1 THEN 1 ELSE 2],
     history_forward |-> <<>>,
     last_error |-> None]

\* FileNavigationConfig::default() with no on_error callback registered
ConfigWith(enable_history, on_path_change) ==
    [enable_double_click |-> TRUE,
     enable_parent_navigation |-> TRUE,
     enable_history |-> enable_history,
     on_path_change |-> on_path_change,
     on_error |-> FALSE]

NavStart(initial_paths) ==
    /\ nav \in {FileNavigationStateNew(p) : p \in initial_paths}
               \cup (IF nav_config.enable_history THEN {LongHistory} ELSE {})
    /\ nav_last = [op |-> "new", arg |-> nav.current_path, ok |-> TRUE, err |-> Ok,
                   notified |-> <<>>, reported |-> <<>>, before |-> nav]
    /\ nav_log = <<>>
    /\ nav_calls = 0

NavInit ==
    /\ nav_config \in {ConfigWith(h, c) : h, c \in BOOLEAN}
    /\ NavStart(Paths)

InitNav == StoreInit /\ ConcIdle /\ NavInit /\ PersistIdle /\ SortIdle

Returned(op, arg, r) ==
    /\ Len(nav_log) < MaxNavCalls
    /\ nav' = r.state
    /\ nav_last' = [op |-> op, arg |-> arg, ok |-> r.ok, err |-> r.err,
                    notified |-> r.notified, reported |-> <<>>, before |-> nav]
    /\ nav_log' = Append(nav_log, [op |-> op, arg |-> arg, ok |-> r.ok])
    /\ nav_calls' = nav_calls + 1
    /\ UNCHANGED <<nav_config, storeVars, concVars, persistVars, sortVars>>

call_navigate_to == \E path \in Paths : Returned("navigate_to", path, navigate_to(nav, nav_config, path))

call_go_back == Returned("go_back", NoDir, go_back(nav, nav_config))

call_go_forward == Returned("go_forward", NoDir, go_forward(nav, nav_config))

NextNav ==
    \/ call_navigate_to
    \/ call_go_back
    \/ call_go_forward

SpecNav == InitNav /\ [][NextNav]_vars

----------------------------------------------------------------------------
(* SpecAllNav: every navigation entry point of FileNavigationManager, under *)
(* every configuration.  The calls are counted, not logged.                 *)

\* FileType; SymLink takes the arm of Other in handle_double_click
FileTypes == {"File", "Directory", "Other"}

\* the FileEntry values a directory listing can hold for a path; fs::read_dir
\* lists no entry for "."
Entries == [path : Paths \ {CurDir}, file_type : FileTypes]

AllNavInit ==
    /\ nav_config \in [enable_double_click : BOOLEAN,
                       enable_parent_navigation : BOOLEAN,
                       enable_history : BOOLEAN,
                       on_path_change : BOOLEAN,
                       on_error : BOOLEAN]
    /\ NavStart({RootDir, NoDir})

InitAllNav == StoreInit /\ ConcIdle /\ AllNavInit /\ PersistIdle /\ SortIdle

Counted(op, arg, r, reported) ==
    /\ nav_calls < MaxAllNavCalls
    /\ nav' = r.state
    /\ nav_last' = [op |-> op, arg |-> arg, ok |-> r.ok, err |-> r.err,
                    notified |-> r.notified, reported |-> reported, before |-> nav]
    /\ nav_calls' = nav_calls + 1
    /\ UNCHANGED <<nav_log, nav_config, storeVars, concVars, persistVars, sortVars>>

do_navigate_to ==
    \E path \in Paths : Counted("navigate_to", path, navigate_to(nav, nav_config, path), <<>>)

do_navigate_up == Counted("navigate_up", NoDir, navigate_up(nav, nav_config), <<>>)

do_go_back == Counted("go_back", NoDir, go_back(nav, nav_config), <<>>)

do_go_forward == Counted("go_forward", NoDir, go_forward(nav, nav_config), <<>>)

do_handle_double_click ==
    \E entry \in Entries :
    \E spawned \in (IF entry.file_type = "Directory" THEN {TRUE} ELSE BOOLEAN) :
        LET r == handle_double_click(nav, nav_config, entry, spawned) IN
        Counted("handle_double_click",
                [path |-> entry.path, file_type |-> entry.file_type, spawned |-> spawned],
                [ok |-> TRUE, err |-> Ok, state |-> r.state, notified |-> r.notified],
                r.reported)

\* FileNavigationManager::clear_error
do_clear_error ==
    Counted("clear_error", NoDir,
            [ok |-> TRUE, err |-> Ok, state |-> [nav EXCEPT !.last_error = None],
             notified |-> <<>>],
            <<>>)

NextAllNav ==
    \/ do_navigate_to
    \/ do_navigate_up
    \/ do_go_back
    \/ do_go_forward
    \/ do_handle_double_click
    \/ do_clear_error

SpecAllNav == InitAllNav /\ [][NextAllNav]_vars

----------------------------------------------------------------------------
(* Claims on the navigation history, checked under SpecNav *)

Range(seq) == {seq[i] : i \in 1..Len(seq)}

\* the log ends with navigate_to(a), navigate_to(b), then `more` further calls
AfterTwoVisits(a, b, more) ==
    LET n == Len(nav_log) - more IN
    /\ n >= 2
    /\ nav_log[n - 1].op = "navigate_to" /\ nav_log[n - 1].arg = a
    /\ nav_log[n].op = "navigate_to" /\ nav_log[n].arg = b

LastCall(back) == nav_log[Len(nav_log) - back]

HistoryScenario(exceptCurrent) ==
    \A a, b \in Dirs :
        a # b =>
            /\ (AfterTwoVisits(a, b, 1) /\ LastCall(0).op = "go_back") =>
                   /\ nav_last.ok
                   /\ nav.current_path = a
                   /\ can_go_forward(nav)
            /\ (/\ AfterTwoVisits(a, b, 2)
                /\ LastCall(1).op = "go_back"
                /\ LastCall(0).op = "go_forward") =>
                   /\ nav_last.ok
                   /\ nav.current_path = b
            /\ \A c \in Dirs \ (IF exceptCurrent THEN {a, b} ELSE {b}) :
                   (/\ AfterTwoVisits(a, b, 2)
                    /\ LastCall(1).op = "go_back"
                    /\ LastCall(0).op = "navigate_to" /\ LastCall(0).arg = c) =>
                       /\ b \notin Range(nav.history_forward)
                       /\ go_forward(nav, nav_config).state.current_path # b

\* C9 as stated: for valid directories A # B, after navigate_to(A) and
\* navigate_to(B), go_back() succeeds, makes A current and can_go_forward()
\* true; a following go_forward() succeeds and makes B current again; after
\* navigate_to(C) with C # B instead, go_forward() no longer reaches B.
C9_HistoryScenario == HistoryScenario(FALSE)

\* C9 as amended: the same with history enabled, and for C different from
\* both B and A (navigate_to of the current path A leaves the forward-history
\* as it is).
C9_HistoryScenarioAmended == nav_config.enable_history => HistoryScenario(TRUE)

C9_Witness ==
    /\ nav_config.enable_history
    /\ AfterTwoVisits(1, 2, 2)
    /\ LastCall(1).op = "go_back"
    /\ LastCall(0).op = "navigate_to" /\ LastCall(0).arg = 3
    /\ nav_last.before.history_forward = <<2>>
    /\ nav.history_forward = <<>>

\* the back-history after current_path was pushed on it: the pushed entry on
\* top, the oldest entry dropped when the push exceeded the cap
Pushed(history_back, current_path) ==
    LET pushed == Append(history_back, current_path) IN
    IF Len(history_back) >= HistoryCap THEN Tail(pushed) ELSE pushed

HistoryRecording(whenEnabled) ==
    LET b == nav_last.before IN
    /\ (/\ nav_last.op = "navigate_to" /\ nav_last.ok
        /\ nav_last.arg # b.current_path
        /\ whenEnabled => nav_config.enable_history) =>
           /\ nav.history_back = Pushed(b.history_back, b.current_path)
           /\ nav.history_forward = <<>>
    /\ (nav_last.op = "navigate_to" /\ nav_last.ok /\ nav_last.arg = b.current_path) =>
           /\ nav.history_back = b.history_back
           /\ nav.history_forward = b.history_forward
    /\ nav_last.op = "go_back" =>
           (nav.history_forward = <<>> => b.history_forward = <<>>)
    /\ nav_last.op = "go_forward" =>
           (nav.history_back = <<>> => b.history_back = <<>>)

\* C10 as stated: a successful navigate_to(P) with P different from the
\* current path pushes the old current path on the back-history and empties
\* the forward-history; a successful navigate_to of the current path leaves
\* both histories unchanged; go_back and go_forward never empty the stack
\* they push onto.
C10_HistoryRecording == HistoryRecording(FALSE)

\* C10 as amended: the first part holds with history enabled.
C10_HistoryRecordingAmended == HistoryRecording(TRUE)

C10_Witness ==
    /\ nav_config.enable_history
    /\ nav_last.op = "navigate_to" /\ nav_last.ok
    /\ nav_last.arg # nav_last.before.current_path
    /\ nav_last.before.history_forward # <<>>
    /\ nav.history_forward = <<>>
    /\ Last(nav.history_back) = nav_last.before.current_path

----------------------------------------------------------------------------
(* Claims on every navigation entry point, checked under SpecAllNav *)

\* C11: after any sequence of navigate_to, navigate_up, go_back, go_forward
\* and handle_double_click calls the back-history holds at most 50 entries,
\* and when a navigate_to push would make it 51 the entry dropped is the
\* oldest one.
C11_BackHistoryBounded ==
    LET b == nav_last.before IN
    /\ Len(nav.history_back) <= HistoryCap
    /\ (/\ nav_last.op = "navigate_to" /\ nav_last.ok
        /\ nav_config.enable_history
        /\ nav_last.arg # b.current_path
        /\ Len(b.history_back) = HistoryCap) =>
           nav.history_back = Append(Tail(b.history_back), b.current_path)

C11_Witness ==
    /\ nav_last.op = "navigate_to" /\ nav_last.ok
    /\ Len(nav_last.before.history_back) = HistoryCap
    /\ Len(nav.history_back) = HistoryCap
    /\ Last(nav.history_back) = nav_last.before.current_path
    /\ nav.history_back[1] = nav_last.before.history_back[2]

\* C12: a navigate_to(P) that fails validation (P absent, not a directory or
\* inaccessible) returns an error, leaves the current path, both histories
\* and last_error exactly as they were, and does not invoke the path-change
\* callback.
C12_FailedNavigationKeepsState ==
    (nav_last.op = "navigate_to" /\ validate_navigation(nav_last.arg) # Ok) =>
        /\ ~nav_last.ok
        /\ nav_last.err # Ok
        /\ nav = nav_last.before
        /\ nav_last.notified = <<>>

C12_Witness ==
    /\ nav_last.op = "navigate_to" /\ ~nav_last.ok
    /\ nav_last.arg = AFile
    /\ nav_config.on_path_change
    /\ nav.last_error # None
    /\ nav.history_back # <<>>
    /\ nav = nav_last.before

\* C13: navigate_to(P) on a target that does not exist, is not a directory
\* or is inaccessible returns an error of kind InvalidPath that carries the
\* path P.
C13_FailedNavigationIsInvalidPath ==
    (nav_last.op = "navigate_to" /\ nav_last.arg \in {NoDir, AFile, LockedDir}) =>
        /\ nav_last.err # Ok
        /\ nav_last.err[1].kind = "InvalidPath"
        /\ nav_last.err[1].payload = <<nav_last.arg>>

\* what go_back / go_forward did to the stack it pops and to the other one
HistoryStep(no_history) ==
    LET before == nav_last.before
        back == nav_last.op = "go_back"
        popped == IF back THEN before.history_back ELSE before.history_forward
        other == IF back THEN before.history_forward ELSE before.history_back
        popped_now == IF back THEN nav.history_back ELSE nav.history_forward
        other_now == IF back THEN nav.history_forward ELSE nav.history_back
    IN  IF popped = <<>>
        THEN /\ ~nav_last.ok
             /\ nav_last.err = Err(FileSystemCustom(<<no_history>>))
             /\ nav = before
             /\ nav_last.notified = <<>>
        ELSE /\ nav_last.ok
             /\ nav.current_path = Last(popped)
             /\ popped_now = Front(popped)
             /\ other_now = Append(other, before.current_path)
             /\ nav_last.notified =
                    IF nav_config.on_path_change THEN <<Last(popped)>> ELSE <<>>

\* C29, as stated: go_back() on an empty back-history and go_forward() on an
\* empty forward-history return a "no history" error, leave the current path
\* and both histories unchanged and invoke no callback; on a non-empty stack
\* they pop its most recent entry as the new current path, push the prior
\* current path on the other stack, and invoke the path-change callback (if
\* one is registered) once with the new path.
C29_HistoryNavigation ==
    /\ nav_last.op = "go_back" => HistoryStep("no back history")
    /\ nav_last.op = "go_forward" => HistoryStep("no forward history")

\* C29, amended: as stated when enable_history is true; when it is false,
\* where both histories stay empty, the two calls return a "history
\* navigation is disabled" error and change nothing.
C29_HistoryNavigationAmended ==
    /\ nav_last.op = "go_back" =>
           HistoryStep(IF nav_config.enable_history THEN "no back history"
                       ELSE "history navigation is disabled")
    /\ nav_last.op = "go_forward" =>
           HistoryStep(IF nav_config.enable_history THEN "no forward history"
                       ELSE "history navigation is disabled")

\* go_forward took back the path that a go_back had left, callback notified
C29_Witness ==
    /\ nav_last.op = "go_forward"
    /\ nav_last.ok
    /\ nav_last.before.history_forward # <<>>
    /\ nav_last.notified = <<nav.current_path>>
    /\ nav.history_back # <<>>

\* C30: whenever can_go_up() returns true, an immediately following
\* navigate_up() returns Ok and makes the parent of the previous current
\* path the current path.
C30_CanGoUpThenUp ==
    (/\ nav_last.op = "navigate_up"
     /\ can_go_up(nav_last.before, nav_config)) =>
        /\ nav_last.ok
        /\ Some(nav.current_path) = get_parent_directory(nav_last.before.current_path)

\* what navigate_up did, given the message of the error it returns when
\* parent navigation is disabled
UpStep(disabled) ==
    LET before == nav_last.before
        parent == get_parent_directory(before.current_path)
    IN  IF ~nav_config.enable_parent_navigation \/ parent = None
        THEN /\ ~nav_last.ok
             /\ nav_last.err =
                    Err(FileSystemCustom(<<IF nav_config.enable_parent_navigation
                                           THEN "no parent directory" ELSE disabled>>))
             /\ nav = before
             /\ nav_last.notified = <<>>
        ELSE LET r == navigate_to(before, nav_config, parent[1])
             IN  /\ nav_last.ok = r.ok
                 /\ nav_last.err = r.err
                 /\ nav = r.state
                 /\ nav_last.notified = r.notified

\* C31, as stated: navigate_up() fails with a "no parent" error, leaving the
\* current path and both histories unchanged, when the current path has no
\* parent or when enable_parent_navigation is false; otherwise its effect on
\* current path, histories and callback is exactly that of
\* navigate_to(parent).
C31_NavigateUp ==
    nav_last.op = "navigate_up" => UpStep("no parent directory")

\* C31, amended: as stated, except that with enable_parent_navigation false
\* the error is "parent navigation is disabled", whatever the current path.
C31_NavigateUpAmended ==
    nav_last.op = "navigate_up" => UpStep("parent navigation is disabled")

\* navigate_up moved to the parent, recorded the path it left and notified
C31_Witness ==
    /\ nav_last.op = "navigate_up"
    /\ nav_last.ok
    /\ Some(nav.current_path) = get_parent_directory(nav_last.before.current_path)
    /\ nav.history_back # <<>>
    /\ Last(nav.history_back) = nav_last.before.current_path
    /\ nav_last.notified = <<nav.current_path>>

\* C32: handle_double_click never propagates a failure: a Directory entry is
\* handled as navigate_to(entry.path) and any other entry as
\* open_item(entry.path); if that fails, last_error becomes Some(message) and
\* the error callback (if one is registered) is invoked exactly once with
\* that message while current path and histories stay unchanged; if a
\* directory navigation succeeds, last_error is None afterwards; with
\* enable_double_click = false nothing changes.
C32_DoubleClick ==
    LET before == nav_last.before
        entry == nav_last.arg
        moved == navigate_to(before, nav_config, entry.path)
        attempt == IF entry.file_type = "Directory" THEN moved.err
                   ELSE open_item(entry.path, entry.spawned)
    IN  nav_last.op = "handle_double_click" =>
            /\ nav_last.ok /\ nav_last.err = Ok
            /\ ~nav_config.enable_double_click =>
                   nav = before /\ nav_last.notified = <<>> /\ nav_last.reported = <<>>
            /\ (nav_config.enable_double_click /\ attempt # Ok) =>
                   /\ nav.last_error # None
                   /\ nav.last_error[1].error = attempt[1]
                   /\ nav_last.reported =
                          IF nav_config.on_error THEN <<nav.last_error[1]>> ELSE <<>>
                   /\ nav.current_path = before.current_path
                   /\ nav.history_back = before.history_back
                   /\ nav.history_forward = before.history_forward
                   /\ nav_last.notified = <<>>
            /\ (nav_config.enable_double_click /\ attempt = Ok) =>
                   /\ nav_last.reported = <<>>
                   /\ IF entry.file_type = "Directory"
                      THEN /\ nav.last_error = None
                           /\ nav = moved.state
                           /\ nav_last.notified = moved.notified
                      ELSE nav = before /\ nav_last.notified = <<>>

\* a double click on a directory entry whose path is gone was reported to
\* the error callback, after an earlier failure had been cleared
C32_Witness ==
    /\ nav_last.op = "handle_double_click"
    /\ nav_last.arg.file_type = "Directory"
    /\ nav_last.arg.path = NoDir
    /\ nav_last.before.last_error = None
    /\ nav_last.before.history_back # <<>>
    /\ nav.last_error # None
    /\ nav_last.reported = <<nav.last_error[1]>>

\* C33: in every reachable navigation state can_go_back() is true exactly
\* when an immediately following go_back() returns Ok, and can_go_forward()
\* exactly when go_forward() returns Ok, also with enable_history = false;
\* the go_back and go_forward calls that were made agree with the predicates
\* evaluated on the state before them.  The predicates read the state only.
C33_PredicatesAgree ==
    /\ can_go_back(nav) = go_back(nav, nav_config).ok
    /\ can_go_forward(nav) = go_forward(nav, nav_config).ok
    /\ nav_last.op = "go_back" => nav_last.ok = can_go_back(nav_last.before)
    /\ nav_last.op = "go_forward" => nav_last.ok = can_go_forward(nav_last.before)

\* go_forward() succeeded on the only entry of the forward history, so that
\* can_go_forward() turned false and can_go_back() true
C33_Witness ==
    /\ nav_last.op = "go_forward"
    /\ nav_last.ok
    /\ can_go_forward(nav_last.before)
    /\ ~can_go_forward(nav)
    /\ can_go_back(nav)

----------------------------------------------------------------------------
(* StatePersistenceManager (crates/config/src/state_persistence.rs).        *)
(* A file name is the sequence of its parts between the dots: "s.json" is   *)
(* <<"s", "json">>.  The state directory maps the names of its files to     *)
(* their content and modification second.                                   *)

SJson == <<"s", "json">>
SPlain == <<"s">>
Keys == {SJson, SPlain}

\* the values of the persisted type T; Unencodable is a value
\* serde_json::to_string_pretty rejects
Values == 1..MaxValue
Unencodable == 0

JsonText(state) == [text |-> "json", of |-> state]
Garbage == [text |-> "garbage", of |-> 0]

\* serde_json::to_string_pretty(state).map_err(AppError::Json)
to_string_pretty(state) ==
    IF state \in Values
    THEN [err |-> Ok, json |-> Some(JsonText(state))]
    ELSE [err |-> Err(Json("cannot encode")), json |-> None]

\* serde_json::from_str(&content).map_err(AppError::Json)
from_str(content) ==
    IF content.text = "json"
    THEN [err |-> Ok, state |-> Some(content.of)]
    ELSE [err |-> Err(Json("syntax")), state |-> None]

\* Path::file_stem: the name without its last extension
file_stem(name) == IF Len(name) > 1 THEN Front(name) ELSE name

\* chrono::Utc::now().format("%Y%m%d_%H%M%S")
format_timestamp(second) == ToString(second)

\* format!("{}.backup.{}.json", file_stem, timestamp)
backup_filename(file_name, second) ==
    file_stem(file_name) \o <<"backup", format_timestamp(second), "json">>

\* format!("{}.backup.", file_name): the parts before the closing dot
backup_prefix(file_name) == file_name \o <<"backup">>

\* str::starts_with(&backup_prefix): the prefix ends with a dot
starts_with(name, prefix) ==
    /\ Len(name) > Len(prefix)
    /\ SubSeq(name, 1, Len(prefix)) = prefix

\* fs::write / fs::copy: the file is created or replaced, modified now
Write(dir, name, content, second) ==
    [n \in DOMAIN dir \cup {name} |->
        IF n = name THEN [content |-> content, modified |-> second] ELSE dir[n]]

\* fs::remove_file on each of names
Remove(dir, names) == [n \in DOMAIN dir \ names |-> dir[n]]

\* backups.sort_by(modified, descending)
RECURSIVE NewestFirst(_, _)
NewestFirst(dir, names) ==
    IF names = {} THEN <<>>
    ELSE LET newest == CHOOSE n \in names :
                           \A m \in names : dir[m].modified <= dir[n].modified
         IN  <<newest>> \o NewestFirst(dir, names \ {newest})

\* StatePersistenceManager::list_backups
list_backups(dir, filename) ==
    NewestFirst(dir, {n \in DOMAIN dir : starts_with(n, backup_prefix(filename))})

\* StatePersistenceManager::create_backup; fault = "copy" makes fs::copy fail
create_backup(dir, file_name, second, fault) ==
    IF file_name \notin DOMAIN dir
    THEN [err |-> Ok, disk |-> dir]
    ELSE IF fault = "copy"
    THEN [err |-> Err(FileSystem("copy")), disk |-> dir]
    ELSE [err |-> Ok,
          disk |-> Write(dir, backup_filename(file_name, second),
                         dir[file_name].content, second)]

\* cleanup_old_backups that gives up at the first fs::remove_file that fails
cleanup_old_backupsStopsAtFailure(dir, file_name, max, fault) ==
    LET backups == list_backups(dir, file_name) IN
    IF fault = "list"
    THEN [err |-> Err(FileSystem("read_dir")), disk |-> dir]
    ELSE IF Len(backups) > max /\ fault # "remove"
    THEN [err |-> Ok, disk |-> Remove(dir, {backups[i] : i \in (max + 1)..Len(backups)})]
    ELSE [err |-> Ok, disk |-> dir]

\* StatePersistenceManager::cleanup_old_backups; fault = "list" makes the
\* fs::read_dir of its list_backups fail, fault = "remove" the fs::remove_file
\* of the first backup it removes
cleanup_old_backups(dir, file_name, max, fault) ==
    LET backups == list_backups(dir, file_name)
        to_remove == {backups[i] : i \in (max + 1)..Len(backups)}
        failed == IF fault = "remove" THEN {backups[max + 1]} ELSE {}
    IN  IF fault = "list"
        THEN [err |-> Err(FileSystem("read_dir")), disk |-> dir]
        ELSE IF Len(backups) > max
        THEN [err |-> Ok, disk |-> Remove(dir, to_remove \ failed)]
        ELSE [err |-> Ok, disk |-> dir]

save_stateKeepsExisting(dir, state, filename, second, max, fault) ==
    LET backed == create_backup(dir, filename, second, fault)
        json == to_string_pretty(state)
    IN  IF backed.err # Ok
        THEN [err |-> backed.err, disk |-> backed.disk]
        ELSE IF json.err # Ok
        THEN [err |-> json.err, disk |-> backed.disk]
        ELSE IF fault = "write"
        THEN [err |-> Err(FileSystem("write")), disk |-> backed.disk]
        ELSE cleanup_old_backups(
                 IF filename \in DOMAIN dir THEN backed.disk
                 ELSE Write(backed.disk, filename, json.json[1], second),
                 filename, max, fault)

save_stateIgnoresBackupError(dir, state, filename, second, max, fault) ==
    LET backed == create_backup(dir, filename, second, fault)
        json == to_string_pretty(state)
    IN  IF json.err # Ok
        THEN [err |-> json.err, disk |-> backed.disk]
        ELSE IF fault = "write"
        THEN [err |-> Err(FileSystem("write")), disk |-> backed.disk]
        ELSE LET cleaned == cleanup_old_backups(
                                Write(backed.disk, filename, json.json[1], second),
                                filename, max, fault)
             IN  [err |-> IF backed.err # Ok THEN backed.err ELSE cleaned.err,
                  disk |-> cleaned.disk]

\* StatePersistenceManager::save_state; fault = "write" makes fs::write fail
save_state(dir, state, filename, second, max, fault) ==
    LET backed == create_backup(dir, filename, second, fault)
        json == to_string_pretty(state)
    IN  IF backed.err # Ok
        THEN [err |-> backed.err, disk |-> backed.disk]
        ELSE IF json.err # Ok
        THEN [err |-> json.err, disk |-> backed.disk]
        ELSE IF fault = "write"
        THEN [err |-> Err(FileSystem("write")), disk |-> backed.disk]
        ELSE cleanup_old_backups(
                 Write(backed.disk, filename, json.json[1], second),
                 filename, max, fault)

\* StatePersistenceManager::load_state
load_state(dir, filename) ==
    IF filename \notin DOMAIN dir
    THEN [err |-> Err(InvalidPath(filename)), state |-> None]
    ELSE from_str(dir[filename].content)

\* StatePersistenceManager::get_latest_backup_path
get_latest_backup_path(dir, filename) ==
    LET backups == list_backups(dir, filename) IN
    IF backups = <<>>
    THEN [err |-> Err(Internal("No backup files found")), path |-> None]
    ELSE [err |-> Ok, path |-> Some(backups[1])]

\* StatePersistenceManager::restore_from_backup
restore_from_backup(dir, filename) ==
    LET latest == get_latest_backup_path(dir, filename) IN
    IF latest.err # Ok
    THEN [err |-> latest.err, state |-> None]
    ELSE from_str(dir[latest.path[1]].content)

\* StatePersistenceManager::ensure_state_dir: whether the state directory
\* exists afterwards (fs::create_dir_all creates it when it is missing)
ensure_state_dir(present) == [err |-> Ok, present |-> TRUE]

\* StatePersistenceManager::state_exists
state_exists(dir, filename) == filename \in DOMAIN dir

\* StatePersistenceManager::delete_state; fault = "remove" makes
\* fs::remove_file fail
delete_state(dir, filename, fault) ==
    IF filename \notin DOMAIN dir
    THEN [err |-> Ok, disk |-> dir]
    ELSE IF fault = "remove"
    THEN [err |-> Err(FileSystem("remove_file")), disk |-> dir]
    ELSE [err |-> Ok, disk |-> Remove(dir, {filename})]

\* the order of str on the parts of the file names that occur: digits sort
\* before letters, and no part is a prefix of another
PartOrder == <<"0", "1", "2", "3", "4", "5", "6", "7", "8", "9", "backup", "json", "s">>
PartRank(part) == CHOOSE i \in 1..Len(PartOrder) : PartOrder[i] = part

\* Ord for String on dotted names: "." sorts before every digit and letter,
\* so a name sorts after its proper prefixes and otherwise by the first part
\* that differs
RECURSIVE name_lt(_, _)
name_lt(a, b) ==
    IF b = <<>> THEN FALSE
    ELSE IF a = <<>> THEN TRUE
    ELSE IF Head(a) # Head(b) THEN PartRank(Head(a)) < PartRank(Head(b))
    ELSE name_lt(Tail(a), Tail(b))

\* files.sort()
RECURSIVE sort(_)
sort(names) ==
    IF names = {} THEN <<>>
    ELSE LET first == CHOOSE n \in names : \A m \in names \ {n} : name_lt(n, m)
         IN  <<first>> \o sort(names \ {first})

\* str::ends_with(".json")
ends_with_json(name) == Len(name) > 1 /\ Last(name) = "json"

\* StatePersistenceManager::list_state_files
list_state_files(dir, present) ==
    IF ~present
    THEN [err |-> Ok, files |-> <<>>]
    ELSE [err |-> Ok, files |-> sort({n \in DOMAIN dir : ends_with_json(n)})]

----------------------------------------------------------------------------
(* SpecPersist: one caller drives a StatePersistenceManager while the clock *)
(* advances; another program may write a file into the state directory.     *)

Faults == {"none", "copy", "write", "list"}

PersistInit ==
    /\ disk = EmptyDir
    /\ dir_exists = TRUE
    /\ max_backups \in 0..MaxBackups
    /\ clock = 0
    /\ persist_last = NoPersistCall(EmptyDir)
    /\ persist_calls = 0
    /\ saves = <<>>

InitPersist == StoreInit /\ ConcIdle /\ NavIdle /\ PersistInit /\ SortIdle

tick ==
    /\ clock < MaxSecond
    /\ clock' = clock + 1
    /\ UNCHANGED <<disk, dir_exists, max_backups, persist_last, persist_calls, saves,
                   storeVars, concVars, navVars, sortVars>>

\* In a state directory that is gone fs::write fails: it creates the file,
\* never the directories above it.
Saved(key, state, fault) ==
        LET r == save_state(disk, state, key, clock, max_backups, fault) IN
        /\ disk' = r.disk
        /\ persist_last' = [op |-> "save_state", key |-> key, ok |-> r.err = Ok,
                            err |-> r.err, value |-> Some(state), listed |-> <<>>,
                            before |-> disk, dir_existed |-> dir_exists, second |-> clock]
        /\ persist_calls' = persist_calls + 1
        /\ saves' = IF r.err = Ok
                    THEN Append(saves, [key |-> key, value |-> state, second |-> clock])
                    ELSE saves
        /\ UNCHANGED <<dir_exists, max_backups, clock, storeVars, concVars, navVars, sortVars>>

call_save_state ==
    \E key \in Keys, state \in Values \cup {Unencodable} :
    \E fault \in (IF dir_exists THEN Faults ELSE {"write"}) :
        persist_calls < MaxPersistCalls /\ Saved(key, state, fault)

\* another program writes text that is not JSON to a state file
outside_write ==
    \E key \in Keys :
        /\ dir_exists
        /\ persist_calls < MaxPersistCalls
        /\ disk' = Write(disk, key, Garbage, clock)
        /\ persist_last' = [op |-> "fs::write", key |-> key, ok |-> TRUE, err |-> Ok,
                            value |-> None, listed |-> <<>>, before |-> disk,
                            dir_existed |-> dir_exists, second |-> clock]
        /\ persist_calls' = persist_calls + 1
        /\ UNCHANGED <<dir_exists, max_backups, clock, saves,
                       storeVars, concVars, navVars, sortVars>>

Queried(op, key, r, listed) ==
    /\ persist_last' = [op |-> op, key |-> key, ok |-> r.err = Ok, err |-> r.err,
                        value |-> r.state, listed |-> listed, before |-> disk,
                        dir_existed |-> dir_exists, second |-> clock]
    /\ UNCHANGED <<disk, dir_exists, max_backups, clock, persist_calls, saves,
                   storeVars, concVars, navVars, sortVars>>

call_load_state == \E key \in Keys : Queried("load_state", key, load_state(disk, key), <<>>)

call_restore_from_backup ==
    \E key \in Keys :
        Queried("restore_from_backup", key, restore_from_backup(disk, key), <<>>)

call_list_backups ==
    \E key \in Keys :
        Queried("list_backups", key, [err |-> Ok, state |-> None], list_backups(disk, key))

call_state_exists ==
    \E key \in Keys :
        Queried("state_exists", key,
                [err |-> Ok, state |-> Some(state_exists(disk, key))], <<>>)

call_list_state_files ==
    LET r == list_state_files(disk, dir_exists) IN
    Queried("list_state_files", <<>>, [err |-> r.err, state |-> None], r.files)

call_delete_state ==
    \E key \in Keys, fault \in {"none", "remove"} :
        LET r == delete_state(disk, key, fault) IN
        /\ persist_calls < MaxPersistCalls
        /\ disk' = r.disk
        /\ persist_last' = [op |-> "delete_state", key |-> key, ok |-> r.err = Ok,
                            err |-> r.err, value |-> None, listed |-> <<>>,
                            before |-> disk, dir_existed |-> dir_exists, second |-> clock]
        /\ persist_calls' = persist_calls + 1
        /\ UNCHANGED <<dir_exists, max_backups, clock, saves,
                       storeVars, concVars, navVars, sortVars>>

\* another program removes the state directory and all it holds
remove_state_dir ==
    /\ dir_exists
    /\ persist_calls < MaxPersistCalls
    /\ disk' = EmptyDir
    /\ dir_exists' = FALSE
    /\ persist_last' = [op |-> "fs::remove_dir_all", key |-> <<>>, ok |-> TRUE,
                        err |-> Ok, value |-> None, listed |-> <<>>,
                        before |-> disk, dir_existed |-> dir_exists, second |-> clock]
    /\ persist_calls' = persist_calls + 1
    /\ UNCHANGED <<max_backups, clock, saves, storeVars, concVars, navVars, sortVars>>

\* StatePersistenceManager::new on the same configuration: the program is
\* started again
call_new ==
    /\ dir_exists' = ensure_state_dir(dir_exists).present
    /\ persist_last' = [op |-> "new", key |-> <<>>, ok |-> TRUE, err |-> Ok,
                        value |-> None, listed |-> <<>>,
                        before |-> disk, dir_existed |-> dir_exists, second |-> clock]
    /\ UNCHANGED <<disk, max_backups, clock, persist_calls, saves,
                   storeVars, concVars, navVars, sortVars>>

NextPersist ==
    \/ tick
    \/ call_save_state
    \/ outside_write
    \/ call_load_state
    \/ call_restore_from_backup
    \/ call_list_backups
    \/ call_state_exists
    \/ call_list_state_files
    \/ call_delete_state
    \/ remove_state_dir
    \/ call_new

SpecPersist == InitPersist /\ [][NextPersist]_vars

----------------------------------------------------------------------------
(* SpecPrune: one caller saves again and again while the clock advances and *)
(* the removal of a backup may fail.                                        *)

InitPrune == InitPersist

save_state_pruning ==
    \E key \in Keys, state \in Values, fault \in {"none", "remove"} :
        persist_calls < MaxPruneCalls /\ Saved(key, state, fault)

NextPrune ==
    \/ tick
    \/ save_state_pruning
    \/ call_list_backups

SpecPrune == InitPrune /\ [][NextPrune]_vars

----------------------------------------------------------------------------
(* Claims on state persistence, checked under SpecPersist *)

\* the files of dir that create_backup wrote for key
BackupsOf(dir, key) ==
    {n \in DOMAIN dir : \E second \in 0..MaxSecond : n = backup_filename(key, second)}

\* every call that changed the directory was a successful save_state to key
OnlySavesTo(key) ==
    /\ persist_calls = Len(saves)
    /\ \A i \in 1..Len(saves) : saves[i].key = key

\* C14: after save_state(v1, "s.json") then save_state(v2, "s.json") on an
\* initially empty state directory, list_backups("s.json") returns exactly
\* one path, load_state("s.json") returns v2 and restore_from_backup("s.json")
\* returns v1 (read for max_backups >= 1, which keeps that one backup).
C14_TwoSavesScenario ==
    (Len(saves) = 2 /\ OnlySavesTo(SJson) /\ max_backups >= 1) =>
        /\ Len(list_backups(disk, SJson)) = 1
        /\ load_state(disk, SJson).state = Some(saves[2].value)
        /\ restore_from_backup(disk, SJson).state = Some(saves[1].value)

\* C15: after N successful save_state calls to one key in pairwise distinct
\* seconds, with max_backups = K and K < N - 1, exactly K backup files of
\* the key remain and they hold the values of saves N-K .. N-1.
C15_BackupsRotate ==
    \A key \in Keys :
        LET N == Len(saves)
            K == max_backups
        IN  (/\ OnlySavesTo(key)
             /\ \A i, j \in 1..N : i # j => saves[i].second # saves[j].second
             /\ K < N - 1) =>
                /\ Cardinality(BackupsOf(disk, key)) = K
                /\ \A i \in (N - K)..(N - 1) :
                       \E n \in BackupsOf(disk, key) :
                           disk[n].content = JsonText(saves[i].value)

\* C16: after every completed save_state call, whatever saves preceded it,
\* for every key the number of backup files of that key in the state
\* directory is at most max_backups, also for max_backups = 0.
C16_BackupsBounded ==
    (persist_last.op = "save_state" /\ persist_last.ok) =>
        \A key \in Keys : Cardinality(BackupsOf(disk, key)) <= max_backups

C18_FailedBackupAbortsSave ==
    (persist_last.op = "save_state" /\ persist_last.err = Err(FileSystem("copy"))) =>
        /\ ~persist_last.ok
        /\ persist_last.key \in DOMAIN disk
        /\ disk[persist_last.key] = persist_last.before[persist_last.key]
        /\ disk = persist_last.before

C18_Witness ==
    /\ persist_last.op = "save_state"
    /\ persist_last.err = Err(FileSystem("copy"))
    /\ persist_last.value # Some(Unencodable)
    /\ disk[persist_last.key].content # Garbage
    /\ disk[persist_last.key].modified < clock

\* C25: whenever save_state(v, k) returns an error, the live file at k holds
\* exactly the content it held before the call, or is still absent if it was
\* absent.
C25_FailedSaveKeepsLiveFile ==
    LET key == persist_last.key IN
    (persist_last.op = "save_state" /\ ~persist_last.ok) =>
        /\ (key \in DOMAIN disk) = (key \in DOMAIN persist_last.before)
        /\ key \in DOMAIN disk =>
               disk[key].content = persist_last.before[key].content

\* the names under which save_state(key) files a backup of key
BackupNames(key) == {backup_filename(key, second) : second \in 0..MaxSecond}

\* C26: operations on key k never touch another key: save_state(k) creates
\* its backup under a name that belongs to k only, and list_backups(k),
\* restore_from_backup(k) and the pruning of save_state(k) never return,
\* read or delete the live file or a backup of a different key.
C26_KeysAreIsolated ==
    LET key == persist_last.key
        foreign == (Keys \ {key}) \cup UNION {BackupNames(k) : k \in Keys \ {key}}
        created == DOMAIN disk \ DOMAIN persist_last.before
        deleted == DOMAIN persist_last.before \ DOMAIN disk
        latest == get_latest_backup_path(persist_last.before, key)
    IN  /\ persist_last.op = "save_state" => (created \cup deleted) \cap foreign = {}
        /\ persist_last.op = "list_backups" =>
               Range(persist_last.listed) \cap foreign = {}
        /\ (persist_last.op = "restore_from_backup" /\ latest.err = Ok) =>
               latest.path[1] \notin foreign

\* C19: restore_from_backup(key) returns the content of the most recently
\* modified backup of key, the value that was live right before the latest
\* save that replaced it, and fails with NotFound when key has no backups.
C19_RestoreNewestBackup ==
    LET key == persist_last.key
        backups == BackupsOf(disk, key)
    IN  persist_last.op = "restore_from_backup" =>
            /\ backups = {} =>
                   (persist_last.err # Ok /\ persist_last.err[1].kind = "NotFound")
            /\ backups # {} =>
                   \E n \in backups :
                       /\ \A m \in backups : disk[m].modified <= disk[n].modified
                       /\ from_str(disk[n].content).err = persist_last.err
                       /\ from_str(disk[n].content).state = persist_last.value

\* C20: load_state(key) fails with a NotFound error when no file exists at
\* key, fails with a Serialization error (AppError::Json) when the content
\* is malformed, and changes nothing on disk in both cases.
C20_LoadErrors ==
    LET key == persist_last.key IN
    persist_last.op = "load_state" =>
        /\ key \notin DOMAIN disk =>
               /\ persist_last.err # Ok
               /\ persist_last.err[1].kind = "NotFound"
        /\ (key \in DOMAIN disk /\ disk[key].content = Garbage) =>
               /\ persist_last.err # Ok
               /\ persist_last.err[1].kind = "Json"
        /\ disk = persist_last.before

\* C34: save_state(v, k) ensures the state directory exists before it
\* writes: called while the directory is absent, with a value that can be
\* encoded, it creates the directory, returns Ok and leaves v in the live
\* file.
C34_SaveCreatesDirectory ==
    (/\ persist_last.op = "save_state"
     /\ ~persist_last.dir_existed
     /\ persist_last.value[1] \in Values) =>
        /\ persist_last.ok
        /\ dir_exists
        /\ load_state(disk, persist_last.key).state = persist_last.value

\* C36: list_state_files returns, sorted by name, exactly the keys that have
\* a live state file, the keys for which state_exists is true; delete_state(k)
\* that returns Ok leaves state_exists(k) false, and it returns Ok when k is
\* absent.
C36_ListIsLiveKeys ==
    /\ persist_last.op = "list_state_files" =>
           /\ persist_last.ok
           /\ persist_last.listed = sort({k \in Keys : state_exists(disk, k)})
    /\ persist_last.op = "delete_state" =>
           /\ persist_last.ok => ~state_exists(disk, persist_last.key)
           /\ ~state_exists(persist_last.before, persist_last.key) => persist_last.ok

\* the backups of the key that the pruning step of the last save_state call
\* had to remove: those listed after the first max_backups once the backup
\* was made and the live file written
Surplus ==
    LET key == persist_last.key
        second == persist_last.second
        backed == create_backup(persist_last.before, key, second, "none").disk
        written == Write(backed, key, JsonText(persist_last.value[1]), second)
        backups == list_backups(written, key)
    IN  {backups[i] : i \in (max_backups + 1)..Len(backups)}

\* C35: if the removal of one of the surplus backups fails during the pruning
\* step of save_state, save_state still returns Ok, the live file holds the
\* value just saved, and the other surplus backups are removed.
C35_PruningIsBestEffort ==
    (/\ persist_last.op = "save_state"
     /\ persist_last.value[1] \in Values
     /\ Surplus \cap DOMAIN disk # {}) =>
        /\ persist_last.ok
        /\ load_state(disk, persist_last.key).state = persist_last.value
        /\ Cardinality(Surplus \cap DOMAIN disk) = 1

\* a save_state call had two surplus backups to remove, failed on one and
\* removed the other
C35_Witness ==
    /\ persist_last.op = "save_state"
    /\ persist_last.ok
    /\ Cardinality(Surplus) = 2
    /\ Cardinality(Surplus \cap DOMAIN disk) = 1

----------------------------------------------------------------------------
(* FileSortFilterManager (crates/core/src/file_sorting.rs).  A str is the   *)
(* sequence of its code points: "a1" is <<97, 49>>, the digits are 48..57,  *)
(* A..Z are 65..90 and a..z are 97..122, the dot is 46.  An Ordering is     *)
(* "Less", "Equal" or "Greater".  A u64 read from a digit run is the        *)
(* sequence of its decimal digits without leading zeros, zero being <<>>.   *)
(* A FileEntry is [name, file_type, size, modified]; its path ends in its   *)
(* name.                                                                    *)

\* Ord::cmp on two strings: the first difference decides, then the length
cmp(a, b) ==
    LET n == IF Len(a) < Len(b) THEN Len(a) ELSE Len(b)
        diff == {i \in 1..n : a[i] # b[i]}
    IN  IF diff # {}
        THEN LET i == CHOOSE d \in diff : \A e \in diff : d <= e
             IN  IF a[i] < b[i] THEN "Less" ELSE "Greater"
        ELSE IF Len(a) < Len(b) THEN "Less"
        ELSE IF Len(a) > Len(b) THEN "Greater"
        ELSE "Equal"

\* str::to_lowercase
to_lowercase(s) ==
    [i \in 1..Len(s) |-> IF s[i] \in 65..90 THEN s[i] + 32 ELSE s[i]]

\* str::contains
contains(s, pattern) ==
    \E i \in 0..(Len(s) - Len(pattern)) : SubSeq(s, i + 1, i + Len(pattern)) = pattern

\* Path::extension of a path that ends in `name`: what follows the last dot,
\* a leading dot not counted
extension(name) ==
    LET dots == {i \in 2..Len(name) : name[i] = 46}
    IN  IF dots = {} THEN None
        ELSE LET d == CHOOSE i \in dots : \A j \in dots : j <= i
             IN  Some(SubSeq(name, d + 1, Len(name)))

is_hidden_file(name) == name # <<>> /\ name[1] = 46

\* extract_number(chars): takes the digit run off the front of chars and
\* parses it; parse() fails on a run above u64::MAX and unwrap_or(0) makes
\* that zero.  Yields the number and the characters left.
extract_number(chars) ==
    LET \* u64::MAX = 18446744073709551615, digit by digit
        U64Max == <<1, 8, 4, 4, 6, 7, 4, 4, 0, 7, 3, 7, 0, 9, 5, 5, 1, 6, 1, 5>>
        run == IF \A i \in 1..Len(chars) : chars[i] \in 48..57 THEN Len(chars)
               ELSE (CHOOSE i \in 1..Len(chars) :
                        /\ chars[i] \notin 48..57
                        /\ \A j \in 1..(i - 1) : chars[j] \in 48..57) - 1
        zeros == IF \A i \in 1..run : chars[i] = 48 THEN run
                 ELSE (CHOOSE i \in 1..run :
                          /\ chars[i] # 48
                          /\ \A j \in 1..(i - 1) : chars[j] = 48) - 1
        digits == [i \in 1..(run - zeros) |-> chars[zeros + i] - 48]
        overflow == \/ Len(digits) > Len(U64Max)
                    \/ Len(digits) = Len(U64Max) /\ cmp(digits, U64Max) = "Greater"
    IN  [num |-> IF overflow THEN <<>> ELSE digits,
         rest |-> SubSeq(chars, run + 1, Len(chars))]

RECURSIVE natural_sort_compare(_, _)
natural_sort_compare(a, b) ==
    IF a = <<>> /\ b = <<>> THEN "Equal"
    ELSE IF a = <<>> THEN "Less"
    ELSE IF b = <<>> THEN "Greater"
    ELSE IF a[1] \in 48..57 /\ b[1] \in 48..57
    THEN LET a_num == extract_number(a)
             b_num == extract_number(b)
         IN  IF Len(a_num.num) < Len(b_num.num) THEN "Less"
             ELSE IF Len(a_num.num) > Len(b_num.num) THEN "Greater"
             ELSE IF cmp(a_num.num, b_num.num) = "Equal"
             THEN natural_sort_compare(a_num.rest, b_num.rest)
             ELSE cmp(a_num.num, b_num.num)
    ELSE IF a[1] = b[1] THEN natural_sort_compare(Tail(a), Tail(b))
    ELSE cmp(<<a[1]>>, <<b[1]>>)

compare_names(a, b) == natural_sort_compare(to_lowercase(a), to_lowercase(b))

\* compare_modified_times on Option<SystemTime>: None is before every Some
compare_modified_times(a, b) ==
    IF a # None /\ b # None THEN cmp(a, b)
    ELSE IF a # None THEN "Greater"
    ELSE IF b # None THEN "Less"
    ELSE "Equal"

\* compare_types: the lower-cased extensions, a missing one being ""
compare_types(a, b) ==
    LET a_ext == IF extension(a) = None THEN <<>> ELSE extension(a)[1]
        b_ext == IF extension(b) = None THEN <<>> ELSE extension(b)[1]
    IN  cmp(to_lowercase(a_ext), to_lowercase(b_ext))

\* passes_filter with size bounds that exclude the bound itself
passes_filterExclusive(criteria, entry) ==
    IF ~criteria.show_hidden /\ is_hidden_file(entry.name) THEN FALSE
    ELSE IF /\ criteria.name_filter # None
            /\ criteria.name_filter[1] # <<>>
            /\ ~contains(to_lowercase(entry.name), to_lowercase(criteria.name_filter[1]))
    THEN FALSE
    ELSE IF /\ criteria.extension_filter # None
            /\ criteria.extension_filter[1] # <<>>
            /\ \/ extension(entry.name) = None
               \/ to_lowercase(extension(entry.name)[1])
                      # to_lowercase(criteria.extension_filter[1])
    THEN FALSE
    ELSE IF /\ entry.file_type = "File"
            /\ criteria.min_size # None
            /\ entry.size <= criteria.min_size[1]
    THEN FALSE
    ELSE IF /\ entry.file_type = "File"
            /\ criteria.max_size # None
            /\ entry.size >= criteria.max_size[1]
    THEN FALSE
    ELSE TRUE

\* passes_filter in which a name filter that matches stands in for the
\* extension filter
passes_filterNameFirst(criteria, entry) ==
    IF ~criteria.show_hidden /\ is_hidden_file(entry.name) THEN FALSE
    ELSE IF /\ criteria.name_filter # None
            /\ criteria.name_filter[1] # <<>>
    THEN contains(to_lowercase(entry.name), to_lowercase(criteria.name_filter[1]))
    ELSE IF /\ criteria.extension_filter # None
            /\ criteria.extension_filter[1] # <<>>
            /\ \/ extension(entry.name) = None
               \/ to_lowercase(extension(entry.name)[1])
                      # to_lowercase(criteria.extension_filter[1])
    THEN FALSE
    ELSE IF /\ entry.file_type = "File"
            /\ criteria.min_size # None
            /\ entry.size < criteria.min_size[1]
    THEN FALSE
    ELSE IF /\ entry.file_type = "File"
            /\ criteria.max_size # None
            /\ entry.size > criteria.max_size[1]
    THEN FALSE
    ELSE TRUE

passes_filter(criteria, entry) ==
    IF ~criteria.show_hidden /\ is_hidden_file(entry.name) THEN FALSE
    ELSE IF /\ criteria.name_filter # None
            /\ criteria.name_filter[1] # <<>>
            /\ ~contains(to_lowercase(entry.name), to_lowercase(criteria.name_filter[1]))
    THEN FALSE
    ELSE IF /\ criteria.extension_filter # None
            /\ criteria.extension_filter[1] # <<>>
            /\ \/ extension(entry.name) = None
               \/ to_lowercase(extension(entry.name)[1])
                      # to_lowercase(criteria.extension_filter[1])
    THEN FALSE
    ELSE IF /\ entry.file_type = "File"
            /\ criteria.min_size # None
            /\ entry.size < criteria.min_size[1]
    THEN FALSE
    ELSE IF /\ entry.file_type = "File"
            /\ criteria.max_size # None
            /\ entry.size > criteria.max_size[1]
    THEN FALSE
    ELSE TRUE

\* compare_entries with the direction applied to the folder partition too
compare_entriesReversesFolders(config, a, b) ==
    LET by_criteria ==
            IF config.folders_first
               /\ (a.file_type = "Directory") # (b.file_type = "Directory")
            THEN IF a.file_type = "Directory" THEN "Less" ELSE "Greater"
            ELSE CASE config.criteria = "Name" -> compare_names(a.name, b.name)
                   [] config.criteria = "Size" -> cmp(<<a.size>>, <<b.size>>)
                   [] config.criteria = "Modified" ->
                          compare_modified_times(a.modified, b.modified)
                   [] config.criteria = "Type" -> compare_types(a.name, b.name)
    IN  IF config.direction = "Ascending" THEN by_criteria
        ELSE IF by_criteria = "Less" THEN "Greater"
        ELSE IF by_criteria = "Greater" THEN "Less"
        ELSE "Equal"

\* compare_entries that keeps entries without a timestamp in front whatever
\* the direction
compare_entriesUndatedFirst(config, a, b) ==
    LET by_criteria ==
            CASE config.criteria = "Name" -> compare_names(a.name, b.name)
              [] config.criteria = "Size" -> cmp(<<a.size>>, <<b.size>>)
              [] config.criteria = "Modified" ->
                     compare_modified_times(a.modified, b.modified)
              [] config.criteria = "Type" -> compare_types(a.name, b.name)
        directed ==
            IF config.direction = "Ascending" THEN by_criteria
            ELSE IF config.criteria = "Modified" /\ (a.modified = None \/ b.modified = None)
            THEN by_criteria
            ELSE IF by_criteria = "Less" THEN "Greater"
            ELSE IF by_criteria = "Greater" THEN "Less"
            ELSE "Equal"
    IN  IF config.folders_first
           /\ (a.file_type = "Directory") # (b.file_type = "Directory")
        THEN IF a.file_type = "Directory" THEN "Less" ELSE "Greater"
        ELSE directed

compare_entries(config, a, b) ==
    LET by_criteria ==
            CASE config.criteria = "Name" -> compare_names(a.name, b.name)
              [] config.criteria = "Size" -> cmp(<<a.size>>, <<b.size>>)
              [] config.criteria = "Modified" ->
                     compare_modified_times(a.modified, b.modified)
              [] config.criteria = "Type" -> compare_types(a.name, b.name)
        directed ==
            IF config.direction = "Ascending" THEN by_criteria
            ELSE IF by_criteria = "Less" THEN "Greater"
            ELSE IF by_criteria = "Greater" THEN "Less"
            ELSE "Equal"
    IN  IF config.folders_first
           /\ (a.file_type = "Directory") # (b.file_type = "Directory")
        THEN IF a.file_type = "Directory" THEN "Less" ELSE "Greater"
        ELSE directed

\* apply_sort by a sort that is not stable: an entry goes in front of the
\* entries it compares Equal to
RECURSIVE apply_sortBeforeEquals(_, _)
apply_sortBeforeEquals(config, entries) ==
    IF entries = <<>> THEN <<>>
    ELSE LET sorted == apply_sortBeforeEquals(config, Front(entries))
             entry == Last(entries)
             k == Cardinality({i \in 1..Len(sorted) :
                      compare_entries(config, sorted[i], entry) = "Less"})
         IN  SubSeq(sorted, 1, k) \o <<entry>> \o SubSeq(sorted, k + 1, Len(sorted))

\* apply_sort: slice::sort_by is stable, so an entry goes behind every entry
\* before it in the input that is not Greater than it
RECURSIVE apply_sort(_, _)
apply_sort(config, entries) ==
    IF entries = <<>> THEN <<>>
    ELSE LET sorted == apply_sort(config, Front(entries))
             entry == Last(entries)
             k == Cardinality({i \in 1..Len(sorted) :
                      compare_entries(config, sorted[i], entry) # "Greater"})
         IN  SubSeq(sorted, 1, k) \o <<entry>> \o SubSeq(sorted, k + 1, Len(sorted))

\* process_entries: apply_filter (Vec::retain), then apply_sort
process_entries(config, criteria, entries) ==
    LET keep(entry) == passes_filter(criteria, entry)
    IN  apply_sort(config, SelectSeq(entries, keep))

has_active_filters(criteria) ==
    \/ criteria.name_filter # None
    \/ criteria.extension_filter # None
    \/ criteria.min_size # None
    \/ criteria.max_size # None
    \/ criteria.show_hidden

----------------------------------------------------------------------------
(* SpecSort and SpecFilter: one caller drives a FileSortFilterManager over  *)
(* a listing it read before.  SpecSort changes the sort configuration,      *)
(* SpecFilter the filter criteria.                                          *)

\* the entries a listing is made of
FileEntries ==
    { \* "m", a directory larger than any size bound, without a timestamp
      [name |-> <<109>>, file_type |-> "Directory", size |-> 9, modified |-> None],
      \* "b.txt", an empty directory
      [name |-> <<98, 46, 116, 120, 116>>, file_type |-> "Directory", size |-> 0,
       modified |-> Some(3)],
      \* "file1"
      [name |-> <<102, 105, 108, 101, 49>>, file_type |-> "File", size |-> 1,
       modified |-> Some(1)],
      \* "file2"
      [name |-> <<102, 105, 108, 101, 50>>, file_type |-> "File", size |-> 2,
       modified |-> Some(2)],
      \* "File2"
      [name |-> <<70, 105, 108, 101, 50>>, file_type |-> "File", size |-> 0,
       modified |-> None],
      \* "file10"
      [name |-> <<102, 105, 108, 101, 49, 48>>, file_type |-> "File", size |-> 3,
       modified |-> Some(2)],
      \* "file"
      [name |-> <<102, 105, 108, 101>>, file_type |-> "File", size |-> 1,
       modified |-> Some(4)],
      \* "file0"
      [name |-> <<102, 105, 108, 101, 48>>, file_type |-> "File", size |-> 2,
       modified |-> Some(1)],
      \* "file00"
      [name |-> <<102, 105, 108, 101, 48, 48>>, file_type |-> "File", size |-> 2,
       modified |-> Some(1)],
      \* "file99999999999999999999": twenty nines, above u64::MAX
      [name |-> <<102, 105, 108, 101, 57, 57, 57, 57, 57, 57, 57, 57, 57, 57, 57,
                  57, 57, 57, 57, 57, 57, 57, 57, 57>>,
       file_type |-> "File", size |-> 1, modified |-> Some(2)],
      \* ".h.txt", a hidden file
      [name |-> <<46, 104, 46, 116, 120, 116>>, file_type |-> "File", size |-> 1,
       modified |-> Some(3)],
      \* "a.TXT"
      [name |-> <<97, 46, 84, 88, 84>>, file_type |-> "File", size |-> 3,
       modified |-> None],
      \* "z", a symbolic link
      [name |-> <<122>>, file_type |-> "SymLink", size |-> 0, modified |-> Some(1)] }

\* the listings of at most n different entries, in any order
Listings(n) ==
    UNION {{l \in [1..k -> FileEntries] : \A i, j \in 1..k : l[i] = l[j] => i = j}
           : k \in 0..n}

SortConfigs ==
    [criteria : {"Name", "Size", "Modified", "Type"},
     direction : {"Ascending", "Descending"},
     folders_first : BOOLEAN]

\* the filters of the tool bar: "FILE" by name, "TXT" by extension, sizes
\* from 1 to 2; Some("") is a filter field the user emptied
FilterChoices ==
    [show_hidden : BOOLEAN,
     name_filter : {None, Some(<<>>), Some(<<70, 73, 76, 69>>)},
     extension_filter : {None, Some(<<>>), Some(<<84, 88, 84>>)},
     min_size : {None, Some(1)},
     max_size : {None, Some(2)}]

InitSort ==
    /\ StoreInit /\ ConcIdle /\ NavIdle /\ PersistIdle
    /\ sort_config = SortConfigDefault
    /\ filter_criteria \in {FilterCriteriaDefault,
                            [FilterCriteriaDefault EXCEPT !.show_hidden = TRUE]}
    /\ listing \in Listings(MaxEntries)
    /\ sort_last = NoSortCall

InitFilter ==
    /\ StoreInit /\ ConcIdle /\ NavIdle /\ PersistIdle
    /\ sort_config = SortConfigDefault
    /\ filter_criteria = FilterCriteriaDefault
    /\ listing \in Listings(MaxFiltered)
    /\ sort_last = NoSortCall

\* process_entries(&mut entries) on a copy of the listing
call_process_entries ==
    /\ sort_last' = [op |-> "process_entries",
                     output |-> process_entries(sort_config, filter_criteria, listing)]
    /\ UNCHANGED <<sort_config, filter_criteria, listing,
                   storeVars, concVars, navVars, persistVars>>

update_sort_config ==
    \E config \in SortConfigs :
        /\ sort_config' = config
        /\ sort_last' = [op |-> "update_sort_config", output |-> <<>>]
        /\ UNCHANGED <<filter_criteria, listing,
                       storeVars, concVars, navVars, persistVars>>

update_filter_criteria ==
    \E criteria \in FilterChoices :
        /\ filter_criteria' = criteria
        /\ sort_last' = [op |-> "update_filter_criteria", output |-> <<>>]
        /\ UNCHANGED <<sort_config, listing,
                       storeVars, concVars, navVars, persistVars>>

toggle_sort_direction(config) ==
    [config EXCEPT !.direction =
        IF config.direction = "Ascending" THEN "Descending" ELSE "Ascending"]

call_toggle_sort_direction ==
    /\ sort_config' = toggle_sort_direction(sort_config)
    /\ sort_last' = [op |-> "toggle_sort_direction", output |-> <<>>]
    /\ UNCHANGED <<filter_criteria, listing,
                   storeVars, concVars, navVars, persistVars>>

set_sort_criteria ==
    \E criteria \in {"Name", "Size", "Modified", "Type"} :
        /\ sort_config' =
               IF sort_config.criteria = criteria
               THEN toggle_sort_direction(sort_config)
               ELSE [sort_config EXCEPT !.criteria = criteria,
                                        !.direction = "Ascending"]
        /\ sort_last' = [op |-> "set_sort_criteria", output |-> <<>>]
        /\ UNCHANGED <<filter_criteria, listing,
                       storeVars, concVars, navVars, persistVars>>

clear_filters ==
    /\ filter_criteria' = FilterCriteriaDefault
    /\ sort_last' = [op |-> "clear_filters", output |-> <<>>]
    /\ UNCHANGED <<sort_config, listing,
                   storeVars, concVars, navVars, persistVars>>

NextSort ==
    \/ call_process_entries
    \/ update_sort_config
    \/ call_toggle_sort_direction
    \/ set_sort_criteria

SpecSort == InitSort /\ [][NextSort]_vars

NextFilter ==
    \/ call_process_entries
    \/ update_filter_criteria
    \/ clear_filters

SpecFilter == InitFilter /\ [][NextFilter]_vars

----------------------------------------------------------------------------
(* Claims on the sorting of a listing, checked under SpecSort *)

\* C21: with folders_first enabled, in the output of process_entries every
\* Directory entry precedes every entry that is not a directory, whatever
\* the sort criterion and the direction.
C21_FoldersFirst ==
    (sort_last.op = "process_entries" /\ sort_config.folders_first) =>
        \A i, j \in 1..Len(sort_last.output) :
            /\ sort_last.output[i].file_type = "Directory"
            /\ sort_last.output[j].file_type # "Directory"
            => i < j

\* a directory was put before an entry that the criterion, in Descending
\* direction, puts before the directory
C21_Witness ==
    /\ sort_last.op = "process_entries"
    /\ sort_config.folders_first
    /\ sort_config.direction = "Descending"
    /\ Len(sort_last.output) >= 2
    /\ sort_last.output[1].file_type = "Directory"
    /\ sort_last.output[2].file_type # "Directory"
    /\ compare_entries([sort_config EXCEPT !.folders_first = FALSE],
                       sort_last.output[1], sort_last.output[2]) = "Greater"

\* the decimal digits of the digit run at the front of chars, leading zeros
\* dropped, and the characters behind the run
DigitRun(chars) ==
    LET run == IF \A i \in 1..Len(chars) : chars[i] \in 48..57 THEN Len(chars)
               ELSE (CHOOSE i \in 1..Len(chars) :
                        /\ chars[i] \notin 48..57
                        /\ \A j \in 1..(i - 1) : chars[j] \in 48..57) - 1
        zeros == IF \A i \in 1..run : chars[i] = 48 THEN run
                 ELSE (CHOOSE i \in 1..run :
                          /\ chars[i] # 48
                          /\ \A j \in 1..(i - 1) : chars[j] = 48) - 1
    IN  [num |-> SubSeq(chars, zeros + 1, run),
         rest |-> SubSeq(chars, run + 1, Len(chars))]

\* natural order of two lower-cased names: digit runs at the same position
\* by their value as unsigned integers of any size, other characters by code
\* point, the shorter of two names that agree to its end first
RECURSIVE NaturalOrder(_, _)
NaturalOrder(a, b) ==
    IF a = <<>> /\ b = <<>> THEN "Equal"
    ELSE IF a = <<>> THEN "Less"
    ELSE IF b = <<>> THEN "Greater"
    ELSE IF a[1] \in 48..57 /\ b[1] \in 48..57
    THEN LET a_run == DigitRun(a)
             b_run == DigitRun(b)
         IN  IF Len(a_run.num) < Len(b_run.num) THEN "Less"
             ELSE IF Len(a_run.num) > Len(b_run.num) THEN "Greater"
             ELSE IF a_run.num # b_run.num THEN cmp(a_run.num, b_run.num)
             ELSE NaturalOrder(a_run.rest, b_run.rest)
    ELSE IF a[1] = b[1] THEN NaturalOrder(Tail(a), Tail(b))
    ELSE cmp(<<a[1]>>, <<b[1]>>)

ProperPrefix(a, b) == Len(a) < Len(b) /\ SubSeq(b, 1, Len(a)) = a

\* C23: sorting by Name ascending orders the names by case-insensitive
\* natural order: no entry of the output stands behind one that natural
\* order puts after it, a name that is a proper prefix of another stands
\* before it, and two names that differ in letter case only compare equal.
C23_NaturalNameOrder ==
    (/\ sort_last.op = "process_entries"
     /\ sort_config.criteria = "Name"
     /\ sort_config.direction = "Ascending"
     /\ ~sort_config.folders_first) =>
        \A i, j \in 1..Len(sort_last.output) :
            LET a == to_lowercase(sort_last.output[i].name)
                b == to_lowercase(sort_last.output[j].name)
            IN  /\ i < j => NaturalOrder(a, b) # "Greater"
                /\ i < j => ~ProperPrefix(b, a)
                /\ a = b => compare_names(sort_last.output[i].name,
                                          sort_last.output[j].name) = "Equal"

----------------------------------------------------------------------------
(* Claims on the filtering of a listing, checked under SpecFilter *)

\* the entry's size is outside the size bounds that are set
OutOfBounds(criteria, entry) ==
    \/ criteria.min_size # None /\ entry.size < criteria.min_size[1]
    \/ criteria.max_size # None /\ entry.size > criteria.max_size[1]

\* the entry passes the hidden, name and extension filters
PassesOtherFilters(criteria, entry) ==
    passes_filter([criteria EXCEPT !.min_size = None, !.max_size = None], entry)

SizeFiltered ==
    /\ sort_last.op = "process_entries"
    /\ filter_criteria.min_size # None \/ filter_criteria.max_size # None

\* C22, as stated: with min_size and/or max_size set, process_entries removes
\* every File entry whose size is below min_size or above max_size, keeps
\* every File entry within the bounds, and removes no Directory entry on
\* account of its size.
C22_SizeFilter ==
    SizeFiltered =>
        \A entry \in Range(listing) :
            /\ (entry.file_type = "File" /\ OutOfBounds(filter_criteria, entry))
               => entry \notin Range(sort_last.output)
            /\ (entry.file_type = "File" /\ ~OutOfBounds(filter_criteria, entry))
               => entry \in Range(sort_last.output)
            /\ (entry.file_type = "Directory"
                /\ PassesOtherFilters(filter_criteria, entry))
               => entry \in Range(sort_last.output)

\* C22, amended: with min_size and/or max_size set, process_entries removes
\* every File entry whose size is below min_size or above max_size, keeps
\* every File entry within the bounds (inclusive) that passes the hidden,
\* name and extension filters, and removes no Directory entry on account of
\* its size.
C22_SizeFilterAmended ==
    SizeFiltered =>
        \A entry \in Range(listing) :
            /\ (entry.file_type = "File" /\ OutOfBounds(filter_criteria, entry))
               => entry \notin Range(sort_last.output)
            /\ (/\ entry.file_type = "File"
                /\ ~OutOfBounds(filter_criteria, entry)
                /\ PassesOtherFilters(filter_criteria, entry))
               => entry \in Range(sort_last.output)
            /\ (entry.file_type = "Directory"
                /\ PassesOtherFilters(filter_criteria, entry))
               => entry \in Range(sort_last.output)

\* a File entry whose size is the lower bound was kept, both bounds set
C22_Witness ==
    /\ sort_last.op = "process_entries"
    /\ filter_criteria.min_size # None
    /\ filter_criteria.max_size # None
    /\ \E entry \in Range(sort_last.output) :
           entry.file_type = "File" /\ entry.size = filter_criteria.min_size[1]

\* the four predicates of the filter, each on its own
Shown(criteria, entry) ==
    criteria.show_hidden \/ entry.name = <<>> \/ entry.name[1] # 46

NameMatches(criteria, entry) ==
    \/ criteria.name_filter \in {None, Some(<<>>)}
    \/ contains(to_lowercase(entry.name), to_lowercase(criteria.name_filter[1]))

ExtensionMatches(criteria, entry) ==
    \/ criteria.extension_filter \in {None, Some(<<>>)}
    \/ /\ extension(entry.name) # None
       /\ to_lowercase(extension(entry.name)[1])
              = to_lowercase(criteria.extension_filter[1])

SizeWithin(criteria, entry) ==
    entry.file_type = "File" => ~OutOfBounds(criteria, entry)

\* C37: the output of process_entries contains exactly the entries of the
\* input that satisfy all of: the name does not start with a dot or
\* show_hidden is set; the lower-cased name contains the lower-cased name
\* filter, when a non-empty one is set; the entry has an extension equal,
\* ignoring case, to the extension filter, when a non-empty one is set; and
\* the size bounds, for File entries.  Which entries are kept does not depend
\* on the sort configuration.
C37_FilterIsConjunction ==
    LET kept == {entry \in Range(listing) :
                    /\ Shown(filter_criteria, entry)
                    /\ NameMatches(filter_criteria, entry)
                    /\ ExtensionMatches(filter_criteria, entry)
                    /\ SizeWithin(filter_criteria, entry)}
    IN  /\ sort_last.op = "process_entries" =>
               /\ Range(sort_last.output) = kept
               /\ Len(sort_last.output) = Cardinality(kept)
        /\ \A config \in SortConfigs :
               Range(process_entries(config, filter_criteria, listing)) = kept

\* an entry whose name matches the name filter was removed by the extension
\* filter
C37_Witness ==
    /\ sort_last.op = "process_entries"
    /\ filter_criteria.name_filter \notin {None, Some(<<>>)}
    /\ filter_criteria.extension_filter \notin {None, Some(<<>>)}
    /\ \E entry \in Range(listing) :
           /\ NameMatches(filter_criteria, entry)
           /\ SizeWithin(filter_criteria, entry)
           /\ Shown(filter_criteria, entry)
           /\ entry \notin Range(sort_last.output)

\* Ordering::reverse
reverse(ordering) ==
    CASE ordering = "Less" -> "Greater"
      [] ordering = "Greater" -> "Less"
      [] ordering = "Equal" -> "Equal"

\* a and b are compared by the criterion: they are in the same folders-first
\* partition, or folders_first is off
SamePartition(config, a, b) ==
    ~config.folders_first \/ (a.file_type = "Directory") = (b.file_type = "Directory")

\* C38: for two entries in the same folders-first partition (any two when
\* folders_first is off) the comparison under Descending is the reverse of
\* the comparison under Ascending for the same criterion, so that entries
\* which differ on the criterion come out of process_entries in opposite
\* order under the two directions; for Modified, entries without a timestamp
\* come first under Ascending and last under Descending.
C38_DescendingReverses ==
    LET ascending == [sort_config EXCEPT !.direction = "Ascending"]
        descending == [sort_config EXCEPT !.direction = "Descending"]
        output == sort_last.output
    IN  /\ \A a, b \in Range(listing) :
               SamePartition(sort_config, a, b) =>
                   compare_entries(descending, a, b)
                       = reverse(compare_entries(ascending, a, b))
        /\ sort_last.op = "process_entries" =>
               \A i, j \in 1..Len(output) :
                   (/\ SamePartition(sort_config, output[i], output[j])
                    /\ compare_entries(ascending, output[i], output[j]) = "Less") =>
                       IF sort_config.direction = "Ascending" THEN i < j ELSE j < i
        /\ (sort_last.op = "process_entries" /\ sort_config.criteria = "Modified") =>
               \A i, j \in 1..Len(output) :
                   (/\ SamePartition(sort_config, output[i], output[j])
                    /\ output[i].modified = None
                    /\ output[j].modified # None) =>
                       IF sort_config.direction = "Ascending" THEN i < j ELSE j < i

\* sorted by Modified, Descending: an entry without a timestamp came out
\* behind one with a timestamp in the same partition
C38_Witness ==
    /\ sort_last.op = "process_entries"
    /\ sort_config.criteria = "Modified"
    /\ sort_config.direction = "Descending"
    /\ Len(sort_last.output) >= 2
    /\ SamePartition(sort_config, sort_last.output[1], sort_last.output[2])
    /\ sort_last.output[1].modified # None
    /\ sort_last.output[2].modified = None

\* C39: has_active_filters() is false when the only setting that differs
\* from the default is show_hidden = true, true as soon as a name, extension,
\* min-size or max-size filter is set, and false again after clear_filters().
C39_ActiveFilters ==
    /\ filter_criteria = [FilterCriteriaDefault EXCEPT !.show_hidden = TRUE]
           => ~has_active_filters(filter_criteria)
    /\ (\/ filter_criteria.name_filter # None
        \/ filter_criteria.extension_filter # None
        \/ filter_criteria.min_size # None
        \/ filter_criteria.max_size # None) => has_active_filters(filter_criteria)
    /\ sort_last.op = "clear_filters" => ~has_active_filters(filter_criteria)

\* C40: process_entries is idempotent and deterministic for a fixed
\* configuration: applied to its own output it returns the same list in the
\* same order; its output is a rearrangement of a sub-list of the input, no
\* entry added or duplicated; and entries that compare Equal keep the order
\* they have in the input.
C40_IdempotentStable ==
    LET output == sort_last.output
        kept == SelectSeq(listing, LAMBDA entry : passes_filter(filter_criteria, entry))
    IN  sort_last.op = "process_entries" =>
            /\ process_entries(sort_config, filter_criteria, output) = output
            /\ Len(output) = Len(kept)
            /\ Range(output) = Range(kept)
            /\ \A i, j \in 1..Len(kept) :
                   (i < j /\ compare_entries(sort_config, kept[i], kept[j]) = "Equal") =>
                       \E m, n \in 1..Len(output) :
                           m < n /\ output[m] = kept[i] /\ output[n] = kept[j]

\* process_entries left two entries that compare Equal, and differ, in the
\* order of the input
C40_Witness ==
    /\ sort_last.op = "process_entries"
    /\ Len(sort_last.output) = 2
    /\ sort_last.output = listing
    /\ compare_entries(sort_config, listing[1], listing[2]) = "Equal"

====
